---- MODULE Spec2Model ----
(***************************************************************************)
(* Workflow state machine of the AI orchestrator (apps/ai/src/orchestration *)
(* graph.py, review.py, models.py) and the way AgentOrchestrator.run drives *)
(* it (apps/ai/src/services/orchestrator.py).                               *)
(*                                                                          *)
(* Python values are encoded as follows.  None and an absent key are the    *)
(* record NoneRec (a string field uses the string "None"); an empty dict is *)
(* EmptyDict; a dict is a function from its keys; a list is a sequence; a   *)
(* formatted string is the record [template, args] of its format string and *)
(* the values formatted into it.                                            *)
(***************************************************************************)
EXTENDS Integers, Sequences, FiniteSets, TLC

\* ------------------------------------------------------------------ bounds

\* Largest configured review_max_retries explored.
MaxRetriesCfg == 2

\* Largest retry_count handed to ReviewAgent.evaluate in the function-level
\* specification EvalSpec.
MaxRetryCount == 3

\* Longest detailed_issues list of a feedback drawn in EvalSpec.
MaxIssues == 2

\* Longest directive list a tenant holds when PolicySpec starts.
MaxStored == 2

\* Number of capture calls made with one request in PolicySpec.
MaxCaptures == 2

\* Longest batch handed to add_directives in StoreSpec.
MaxBatch == 2

\* consumer tasks start() may create
MaxTasks == 2

\* ------------------------------------------------------------ Python values

NoneRec == [none |-> TRUE]

EmptyDict == [k \in {} |-> k]

Truthy(d) == d # NoneRec /\ d # EmptyDict

Max(a, b) == IF a >= b THEN a ELSE b

Min(a, b) == IF a <= b THEN a ELSE b

\* xs[:n]
Take(xs, n) == SubSeq(xs, 1, Min(n, Len(xs)))

IsPrefix(xs, ys) == Len(xs) <= Len(ys) /\ xs = SubSeq(ys, 1, Len(xs))

RECURSIVE Flatten(_)
Flatten(xss) == IF xss = <<>> THEN <<>> ELSE Head(xss) \o Flatten(Tail(xss))

\* f"..." : the format string and the values formatted into it
Fmt(template, args) == [template |-> template, args |-> args]

\* ---------------------------------------------------------------- models.py

WorkflowStatus ==
    {"queued", "routing", "policy_check", "fetching_context", "planning",
     "reflecting", "dispatching", "reviewing", "updating_memory", "completed",
     "failed"}

RETRY == "retry"

COMPLETE == "complete"

ReviewAction == {RETRY, COMPLETE}

ReviewIssue(category, description, severity, actionable) ==
    [category |-> category, description |-> description,
     severity |-> severity, actionable |-> actionable]

ReviewNotes(stage, issues, steps, recs, routing) ==
    [workflow_stage |-> stage, issues_found |-> issues,
     successful_steps |-> steps, recommendations |-> recs,
     routing_context |-> routing]

ReviewFeedback(approved, requires_human, summary, issues, detailed, notes) ==
    [approved |-> approved, requires_human |-> requires_human,
     summary |-> summary, issues |-> issues, detailed_issues |-> detailed,
     review_notes |-> notes]

PolicyDecision(allowed, requires_human, reason) ==
    [allowed |-> allowed, requires_human |-> requires_human, reason |-> reason]

PluginDispatchResult(name, count, failed) ==
    [plugin_name |-> name, dispatched_count |-> count, failed |-> failed]

MemorySnapshot(snippets, relations) ==
    [memory_snippets |-> snippets, graph_relations |-> relations]

AgentEvent(type, data) == [type |-> type, data |-> data]

\* ---------------------------------------------------- review.py: Sentinel

\* validation_summary.lower() contains "insufficient" or "irrelevant"
InsufficientSummaries == {"Insufficient context", "Snippets irrelevant"}

SufficientSummaries == {"Relevant snippets present", "No matched snippets"}

MentionsInsufficient(summary) == summary \in InsufficientSummaries

HasFailed(s) == s.plugin_result # NoneRec /\ s.plugin_result.failed # <<>>

HumanByPolicy(s) == s.policy_decision # NoneRec /\ s.policy_decision.requires_human

BlockedByPolicy(s) ==
    /\ s.policy_decision # NoneRec
    /\ ~s.policy_decision.requires_human
    /\ ~s.policy_decision.allowed

NoSnippets(s) ==
    Truthy(s.retrieved_context) /\ s.retrieved_context.memory_snippets = <<>>

BadValidation(s) ==
    Truthy(s.context_validation) /\ MentionsInsufficient(s.context_validation.summary)

HasError(s) == s.error # "None"

\* detailed_issues, in the order the checks of AgentSentinel.review append them
SentinelIssues(s) ==
       (IF HasFailed(s)
          THEN <<ReviewIssue("plugin", "Plugin delivery failed", "high", TRUE)>>
          ELSE <<>>)
    \o (IF s.planned_actions = <<>>
          THEN <<ReviewIssue("planning", "No actions were planned for execution",
                             "medium", TRUE)>>
          ELSE <<>>)
    \o (IF HumanByPolicy(s)
          THEN <<ReviewIssue("policy", "Policy requires human approval", "high", FALSE)>>
          ELSE IF BlockedByPolicy(s)
          THEN <<ReviewIssue("policy", "Policy check failed", "critical", FALSE)>>
          ELSE <<>>)
    \o (IF NoSnippets(s)
          THEN <<ReviewIssue("context", "No relevant context retrieved from memory",
                             "low", TRUE)>>
          ELSE <<>>)
    \o (IF BadValidation(s)
          THEN <<ReviewIssue("validation",
                             "Context validation indicates insufficient or irrelevant information",
                             "medium", TRUE)>>
          ELSE <<>>)
    \o (IF HasError(s)
          THEN <<ReviewIssue("execution", "Execution error", "critical", TRUE)>>
          ELSE <<>>)

\* the list the code calls notes, returned as ReviewFeedback.issues
SentinelNotes(s) ==
       (IF HasFailed(s) THEN <<"One or more plugin deliveries failed">> ELSE <<>>)
    \o (IF s.analysis_summary # "None" THEN <<"Reflection summary captured">> ELSE <<>>)
    \o (IF HumanByPolicy(s) THEN <<"Policy requested human approval">> ELSE <<>>)

SentinelSuccessfulSteps(s) ==
       (IF s.plugin_result # NoneRec /\ s.plugin_result.failed = <<>>
          THEN <<"Plugin executed successfully">> ELSE <<>>)
    \o (IF s.analysis_summary # "None" THEN <<"Agent reflection completed">> ELSE <<>>)
    \o (IF s.policy_decision # NoneRec /\ s.policy_decision.requires_human = FALSE
                                       /\ s.policy_decision.allowed
          THEN <<"Policy validation passed">> ELSE <<>>)
    \o (IF Truthy(s.retrieved_context) /\ s.retrieved_context.memory_snippets # <<>>
          THEN <<"Retrieved relevant memory snippets">> ELSE <<>>)
    \o (IF s.selected_workflow # "None" THEN <<"Workflow selected">> ELSE <<>>)

SentinelRecommendations(s) ==
       (IF HasFailed(s)
          THEN <<"Consider retrying with different delivery channel">> ELSE <<>>)
    \o (IF s.planned_actions = <<>>
          THEN <<"Review workflow selection and planning logic">> ELSE <<>>)
    \o (IF NoSnippets(s)
          THEN <<"Consider enriching memory with more relevant information">> ELSE <<>>)
    \o (IF BadValidation(s) THEN <<"Refine context retrieval strategy">> ELSE <<>>)

\* the routing context without the empty_plan marker
SentinelRoutingContext_NoEmptyPlan(s) ==
       (IF HasFailed(s)
          THEN [failed_plugin |-> s.plugin_result.plugin_name,
                failed_recipients |-> s.plugin_result.failed]
          ELSE EmptyDict)
    @@ (IF HumanByPolicy(s)
          THEN [policy_blocked |-> TRUE, policy_reason |-> s.policy_decision.reason]
          ELSE EmptyDict)
    @@ (IF NoSnippets(s) THEN [low_context |-> TRUE] ELSE EmptyDict)
    @@ (IF s.selected_workflow # "None"
          THEN [workflow |-> s.selected_workflow] ELSE EmptyDict)
    @@ (IF HasError(s) THEN [execution_error |-> s.error] ELSE EmptyDict)

SentinelRoutingContext(s) ==
       (IF HasFailed(s)
          THEN [failed_plugin |-> s.plugin_result.plugin_name,
                failed_recipients |-> s.plugin_result.failed]
          ELSE EmptyDict)
    @@ (IF s.planned_actions = <<>> THEN [empty_plan |-> TRUE] ELSE EmptyDict)
    @@ (IF HumanByPolicy(s)
          THEN [policy_blocked |-> TRUE, policy_reason |-> s.policy_decision.reason]
          ELSE EmptyDict)
    @@ (IF NoSnippets(s) THEN [low_context |-> TRUE] ELSE EmptyDict)
    @@ (IF s.selected_workflow # "None"
          THEN [workflow |-> s.selected_workflow] ELSE EmptyDict)
    @@ (IF HasError(s) THEN [execution_error |-> s.error] ELSE EmptyDict)

\* requires_human that a failed delivery does not set
SentinelRequiresHuman_IgnoresPlugin(s) ==
    \/ s.requires_human_approval
    \/ HumanByPolicy(s)
    \/ BlockedByPolicy(s)
    \/ HasError(s)

\* requires_human that starts from False instead of requires_human_approval
SentinelRequiresHuman_IgnoresPrior(s) ==
    \/ HasFailed(s)
    \/ HumanByPolicy(s)
    \/ BlockedByPolicy(s)
    \/ HasError(s)

SentinelRequiresHuman(s) ==
    \/ s.requires_human_approval
    \/ HasFailed(s)
    \/ HumanByPolicy(s)
    \/ BlockedByPolicy(s)
    \/ HasError(s)

HighSeverityCount(issues) ==
    Cardinality({k \in DOMAIN issues : issues[k].severity \in {"high", "critical"}})

SentinelSummary(s) ==
    IF HighSeverityCount(SentinelIssues(s)) > 0
      THEN Fmt("Workflow completed with {n} critical issue(s)",
               <<HighSeverityCount(SentinelIssues(s))>>)
      ELSE IF s.rendered_message # "None"
      THEN Fmt(s.rendered_message, <<>>)
      ELSE Fmt("Workflow completed", <<>>)

\* AgentSentinel.review
SentinelReview(s) ==
    ReviewFeedback(
        ~SentinelRequiresHuman(s),
        SentinelRequiresHuman(s),
        SentinelSummary(s),
        SentinelNotes(s),
        SentinelIssues(s),
        IF SentinelIssues(s) # <<>> \/ SentinelRoutingContext(s) # EmptyDict
          THEN ReviewNotes(s.status, SentinelIssues(s), SentinelSuccessfulSteps(s),
                           SentinelRecommendations(s), SentinelRoutingContext(s))
          ELSE NoneRec)

\* -------------------------------------------------- review.py: ReviewAgent

\* ReviewAgent.__init__ : self._max_retries = max(0, configured)
ReviewAgentMaxRetries(configured) == Max(0, configured)

CriticalNonActionable(feedback) ==
    SelectSeq(feedback.detailed_issues,
              LAMBDA issue : ~issue.actionable /\ issue.severity = "critical")

Descriptions(issues) == [k \in DOMAIN issues |-> issues[k].description]

\* the context_msg of ReviewAgent.evaluate: up to two recommendations
ContextMsg(feedback) ==
    IF feedback.review_notes # NoneRec /\ feedback.review_notes.recommendations # <<>>
      THEN Take(feedback.review_notes.recommendations, 2)
      ELSE <<>>

IssuesText(feedback) ==
    IF feedback.issues # <<>> THEN feedback.issues ELSE <<"undisclosed issues">>

Decision(action, message) == [action |-> action, message |-> message]

\* evaluate that spends the budget on approved feedback as well
Evaluate_RetriesApproved(feedback, retry_count, maxRetries) ==
    IF retry_count < maxRetries
      THEN Decision(RETRY, Fmt("retrying workflow", <<>>))
      ELSE Decision(COMPLETE, Fmt("Review agent confirms workflow completion", <<>>))

\* evaluate that escalates every unapproved pass at once
Evaluate_NeverRetries(feedback, retry_count, maxRetries) ==
    IF feedback = NoneRec
      THEN Decision(COMPLETE,
             Fmt("Review agent missing feedback; escalating for review", <<>>))
      ELSE IF ~feedback.approved
      THEN Decision(COMPLETE,
             Fmt("Review agent detected issues ({issues}) after retries; escalating{context_msg}",
                 IssuesText(feedback) \o ContextMsg(feedback)))
      ELSE Decision(COMPLETE, feedback.summary)

\* evaluate without the test for critical non-actionable issues
Evaluate_NoShortCircuit(feedback, retry_count, maxRetries) ==
    IF feedback = NoneRec \/ ~feedback.approved
      THEN IF retry_count < maxRetries
             THEN Decision(RETRY, Fmt("retrying workflow", <<>>))
             ELSE Decision(COMPLETE, Fmt("after retries; escalating", <<>>))
      ELSE Decision(COMPLETE, feedback.summary)

\* evaluate with the budget test off by one: retries while retry_count <= max
Evaluate_OffByOne(feedback, retry_count, maxRetries) ==
    IF feedback = NoneRec \/ ~feedback.approved
      THEN IF retry_count <= maxRetries
             THEN Decision(RETRY, Fmt("retrying workflow", <<>>))
             ELSE Decision(COMPLETE, Fmt("after retries; escalating", <<>>))
      ELSE Decision(COMPLETE, feedback.summary)

\* ReviewAgent.evaluate over (review_feedback, retry_count, self._max_retries)
Evaluate(feedback, retry_count, maxRetries) ==
    IF feedback = NoneRec THEN
        IF retry_count < maxRetries
          THEN Decision(RETRY,
                 Fmt("Review agent missing feedback; retrying workflow", <<>>))
          ELSE Decision(COMPLETE,
                 Fmt("Review agent missing feedback; escalating for review", <<>>))
    ELSE IF /\ feedback.detailed_issues # <<>>
            /\ ~feedback.approved
            /\ CriticalNonActionable(feedback) # <<>> THEN
        Decision(COMPLETE,
                 Fmt("Critical non-actionable issues detected: {issue_desc}",
                     Descriptions(CriticalNonActionable(feedback))))
    ELSE IF ~feedback.approved THEN
        IF retry_count < maxRetries
          THEN Decision(RETRY,
                 Fmt("Review agent detected issues ({issues}); retrying workflow{context_msg}",
                     IssuesText(feedback) \o ContextMsg(feedback)))
          ELSE Decision(COMPLETE,
                 Fmt("Review agent detected issues ({issues}) after retries; escalating{context_msg}",
                     IssuesText(feedback) \o ContextMsg(feedback)))
    ELSE
        Decision(COMPLETE,
                 IF feedback.summary.template # ""
                   THEN feedback.summary
                   ELSE Fmt("Review agent confirms workflow completion", <<>>))

\* ------------------------------------------------------------- policy.py

\* str.lower() over the phrases explored
Lower(text) ==
    IF text = "Share Passwords" THEN "share passwords"
    ELSE IF text = "Invoice Overdue" THEN "invoice overdue"
    ELSE text

\* PolicyDirective.__post_init__ stores the pattern stripped and lowercased
PolicyDirective(directive, pattern) ==
    [directive |-> directive, pattern |-> Lower(pattern)]

\* the directives of the explored requests: "never share passwords" and
\* "tell me if invoice overdue", parsed and cleaned
NeverDo == PolicyDirective("never_do", "share passwords")

NotifyIf == PolicyDirective("notify_if", "invoice overdue")

\* "Never do wire money", a second never_do directive
NeverWire == PolicyDirective("never_do", "wire money")

Contains(xs, x) == \E k \in DOMAIN xs : xs[k] = x

\* InMemoryPolicyStore.add_directives / MongoPolicyStore.add_directives: the
\* loop over the batch; `current` grows as it goes
\* the loop without the membership test
AddLoop_NoDedupe(current, added, directives) ==
    [current |-> current \o directives, added |-> directives]

\* the loop that tests membership in the list as it was before the call
AddLoop_ChecksStoredOnly(current, added, directives) ==
    LET fresh == SelectSeq(directives, LAMBDA d : ~Contains(current, d))
    IN  [current |-> current \o fresh, added |-> added \o fresh]

RECURSIVE AddLoop(_, _, _)
AddLoop(current, added, directives) ==
    IF directives = <<>>
      THEN [current |-> current, added |-> added]
      ELSE IF Contains(current, Head(directives))
      THEN AddLoop(current, added, Tail(directives))
      ELSE AddLoop(Append(current, Head(directives)),
                   Append(added, Head(directives)), Tail(directives))

\* tenant_key = tenant_id or "default"
TenantKey(tenant_id) == IF tenant_id = "" THEN "default" ELSE tenant_id

\* get_directives: a copy of the tenant's list
get_directives(store, tenant_id) == store[TenantKey(tenant_id)]

add_directives(store, tenant_id, directives) ==
    LET tenant_key == TenantKey(tenant_id)
        done == AddLoop(get_directives(store, tenant_id), <<>>, directives)
    IN  [store |-> [store EXCEPT ![tenant_key] = done.current], added |-> done.added]

\* capture that parses the directives and stores none
capture_ParsesOnly(store, request) ==
    [store |-> store, added |-> request.policy_feedback]

\* PolicyFeedbackAgent.capture: the directives parsed from the request's
\* feedback text, stored for its tenant; returns the ones newly stored
capture(store, request) ==
    IF request.policy_feedback = <<>>
      THEN [store |-> store, added |-> <<>>]
      ELSE add_directives(store, request.tenant_id, request.policy_feedback)

\* directive.pattern in request_text, the flattened lowercase request
InText(request, pattern) == pattern \in {Lower(phrase) : phrase \in request.text}

FirstBlocking(request, directives) ==
    SelectSeq(directives,
              LAMBDA d : d.directive = "never_do" /\ InText(request, d.pattern))

\* evaluate whose blocked decision does not ask for a human
PolicyEvaluate_BlockedNotHuman(store, request) ==
    LET directives == get_directives(store, request.tenant_id)
        blocking == FirstBlocking(request, directives)
    IN  IF blocking # <<>>
          THEN PolicyDecision(FALSE, FALSE,
                   Fmt("Blocked by directive '{pattern}'", <<Head(blocking).pattern>>))
          ELSE PolicyDecision(TRUE, FALSE, Fmt("Policy check passed", <<>>))

\* evaluate that applies the default tenant's directives to every tenant
PolicyEvaluate_DefaultIsGlobal(store, request) ==
    LET directives == get_directives(store, "default")
                      \o (IF TenantKey(request.tenant_id) = "default"
                            THEN <<>> ELSE get_directives(store, request.tenant_id))
        blocking == FirstBlocking(request, directives)
        notify == \E k \in DOMAIN directives :
                      /\ directives[k].directive = "notify_if"
                      /\ InText(request, directives[k].pattern)
    IN  IF blocking # <<>>
          THEN PolicyDecision(FALSE, TRUE,
                   Fmt("Blocked by directive '{pattern}'", <<Head(blocking).pattern>>))
          ELSE IF request.intent \in {"escalate_issue"} \/ notify
          THEN PolicyDecision(TRUE, TRUE, Fmt("Requires human review before dispatch", <<>>))
          ELSE PolicyDecision(TRUE, FALSE, Fmt("Policy check passed", <<>>))

\* PolicyEngine.evaluate
PolicyEvaluate(store, request) ==
    LET directives == get_directives(store, request.tenant_id)
        escalation == request.intent \in {"escalate_issue"}
        blocking == FirstBlocking(request, directives)
        notify == \E k \in DOMAIN directives :
                      /\ directives[k].directive = "notify_if"
                      /\ InText(request, directives[k].pattern)
    IN  IF blocking # <<>>
          THEN PolicyDecision(FALSE, TRUE,
                   Fmt("Blocked by directive '{pattern}'", <<Head(blocking).pattern>>))
          ELSE IF escalation \/ notify
          THEN PolicyDecision(TRUE, TRUE, Fmt("Requires human review before dispatch", <<>>))
          ELSE PolicyDecision(TRUE, FALSE, Fmt("Policy check passed", <<>>))

\* ------------------------------------------- policy.py: MongoPolicyStore

\* PolicyDirective.to_record
to_record(d) == [directive |-> d.directive, pattern |-> d.pattern]

\* PolicyDirective.from_record over the entries of a document: an entry whose
\* directive is not supported raises ValueError and is skipped
FromRecords(entries) ==
    LET supported == SelectSeq(entries,
                               LAMBDA e : e.directive \in {"never_do", "notify_if"})
    IN  [k \in DOMAIN supported |->
            PolicyDirective(supported[k].directive, supported[k].pattern)]

\* update_one with $addToSet and upsert on the tenant's document
AddToSet(collection, tenant_key, record) ==
    IF Contains(collection.docs[tenant_key], record)
      THEN collection
      ELSE [collection EXCEPT !.docs[tenant_key] = Append(@, record)]

\* MongoPolicyStore.__init__: the collection handed in, otherwise whatever
\* get_policy_collection() returns (None when MongoDB is not configured or not
\* reachable); nothing is cached
MongoPolicyStore(collection, configured, tenants) ==
    [collection |-> IF collection # NoneRec THEN collection ELSE configured,
     cache |-> [t \in tenants |-> [cached |-> FALSE, directives |-> <<>>]]]

\* MongoPolicyStore.get_directives: the cached list, otherwise the tenant's
\* document (nothing without a collection), which is then cached
MongoGetDirectives(store, tenant_id) ==
    LET tenant_key == TenantKey(tenant_id)
        entry == store.cache[tenant_key]
    IN  IF entry.cached
          THEN [store |-> store, result |-> entry.directives]
          ELSE LET directives ==
                       IF store.collection # NoneRec
                         THEN FromRecords(store.collection.docs[tenant_key])
                         ELSE <<>>
               IN  [store |-> [store EXCEPT !.cache[tenant_key] =
                                  [cached |-> TRUE, directives |-> directives]],
                    result |-> directives]

\* the loop of MongoPolicyStore.add_directives: a new directive is appended
\* and, with a collection, persisted at once
RECURSIVE MongoAddLoop(_, _, _, _, _)
MongoAddLoop(current, added, collection, tenant_key, directives) ==
    IF directives = <<>>
      THEN [current |-> current, added |-> added, collection |-> collection]
      ELSE IF Contains(current, Head(directives))
      THEN MongoAddLoop(current, added, collection, tenant_key, Tail(directives))
      ELSE MongoAddLoop(Append(current, Head(directives)),
                        Append(added, Head(directives)),
                        IF collection # NoneRec
                          THEN AddToSet(collection, tenant_key,
                                        to_record(Head(directives)))
                          ELSE collection,
                        tenant_key, Tail(directives))

\* add_directives that returns the added directives and forgets them
MongoAddDirectives_CacheNotUpdated(store, tenant_id, directives) ==
    LET loaded == MongoGetDirectives(store, TenantKey(tenant_id))
        done == MongoAddLoop(loaded.result, <<>>, loaded.store.collection,
                             TenantKey(tenant_id), directives)
    IN  [store |-> [loaded.store EXCEPT !.collection = done.collection],
         added |-> done.added]

\* MongoPolicyStore.add_directives: current is the cached list or, when
\* nothing is cached, the answer of get_directives; the grown list is cached
MongoAddDirectives(store, tenant_id, directives) ==
    LET tenant_key == TenantKey(tenant_id)
        loaded == MongoGetDirectives(store, tenant_key)
        done == MongoAddLoop(loaded.result, <<>>, loaded.store.collection,
                             tenant_key, directives)
    IN  [store |-> [loaded.store EXCEPT
                      !.collection = done.collection,
                      !.cache[tenant_key] = [cached |-> TRUE,
                                             directives |-> done.current]],
         added |-> done.added]

\* ------------------------------------------------------------ run state

Invocations == {1, 2}

Threads == {"t1", "t2"}

Tenants == {"default", "tenant-123"}

Nodes ==
    {"interpret_request", "route_request", "policy_check", "fetch_context",
     "plan_actions", "agent_reflection", "select_plugin", "render_payload",
     "execute_plugin", "review_outcome", "review_agent", "update_memory",
     "finalize"}

VARIABLES
    max_retries,  \* ReviewAgent._max_retries
    env,          \* what the collaborators may answer: one set per collaborator call
    calls,        \* the run() calls made: invocation -> [thread_id, payload]
    pc,           \* invocation -> the node its graph run executes next
    inflight,     \* invocation -> a node execution has started and not yet returned
    st,           \* invocation -> the channel values its graph run holds
    raised,       \* invocation -> the exception that ended its run, or "None"
    ckpt,         \* the checkpointer: thread_id -> latest state snapshot
    policy_store, \* the process-wide PolicyStore: tenant -> stored directives
    hist,         \* invocation -> history of the run (not program state)
    tasks,        \* the consumer tasks start() has created, in order of creation
    consumer_task,    \* AgentOrchestrator._consumer_task: index into tasks, 0 for None
    shutdown,         \* AgentOrchestrator._shutdown is set
    request_channel,  \* messages delivered to the listener and not yet taken
    status_channel,   \* payloads published on the status channel, in order
    last_call,        \* the last of start() / stop() and how it ended (not program state)
    backends          \* a MongoPolicyStore and an InMemoryPolicyStore side by side

\* the orchestrator service and the event bus
service == <<tasks, consumer_task, shutdown, request_channel, status_channel, last_call>>

vars == <<max_retries, env, calls, pc, inflight, st, raised, ckpt, policy_store, hist,
          service, backends>>

\* AgentState: every channel absent
EmptyState ==
    [request |-> NoneRec, raw_prompt |-> "None", status |-> "None",
     selected_workflow |-> "None", policy_decision |-> NoneRec,
     working_notes |-> <<>>, interpretation_notes |-> <<>>,
     retrieved_context |-> NoneRec, context_validation |-> NoneRec,
     planned_actions |-> <<>>, analysis_summary |-> "None",
     selected_plugin |-> "None", rendered_message |-> "None",
     plugin_result |-> NoneRec, review_feedback |-> NoneRec,
     memory_updates |-> <<>>, requires_human_approval |-> FALSE,
     events |-> <<>>, error |-> "None", captured_policy_directives |-> <<>>,
     retry_count |-> 0, review_action |-> "None", review_agent_message |-> NoneRec]

\* a node's partial update overlaid on the channel values, last writer wins
Merge(s, updates) ==
    [k \in DOMAIN s |-> IF k \in DOMAIN updates THEN updates[k] ELSE s[k]]

\* the new event replaces the list instead of extending it
_with_event_Replacing(s, event) == <<event>>

_with_event(s, event) == Append(s.events, event)

EmptyHist ==
    [retries |-> 0, routes |-> 0, dispatches |-> 0, executed |-> 0,
     denied |-> FALSE, last_feedback |-> NoneRec, last_node |-> "None",
     last_grew |-> 0, appended |-> 0, evaluated |-> NoneRec,
     reviewed |-> NoneRec, captured |-> NoneRec, decided |-> NoneRec,
     stored |-> NoneRec, routed |-> NoneRec, sent |-> <<>>]

\* text: the directive patterns that occur in the flattened request text; the
\* feedback phrase of a request is part of its metadata or payload, so its own
\* patterns occur in it
OrchestrationRequest(audience, workflow, feedback, mentioned) ==
    [request_id |-> "r1", intent |-> "send_update", audience |-> audience,
     metadata_workflow |-> workflow, tenant_id |-> "default",
     policy_feedback |-> feedback,
     text |-> {feedback[k].pattern : k \in DOMAIN feedback} \cup mentioned]

\* the same request with its feedback phrases given as the keys of a mapping
\* (metadata.policy_feedback = {"never share passwords": true}):
\* _normalize_text_source iterates a mapping, which yields its keys, while
\* _flatten_request_text descends into a mapping's values only, so the phrases
\* are captured but are no part of the flattened text
FeedbackAsKeys(request) ==
    [request EXCEPT
        !.text = @ \ {request.policy_feedback[k].pattern :
                         k \in DOMAIN request.policy_feedback}]

\* requests with an audience, without one, and with a pinned workflow; with no
\* feedback phrase, a "never ..." phrase or a "tell me if ..." phrase; mentioning
\* "share passwords" or not; and one whose "never ..." phrase is a mapping key
Requests ==
    {OrchestrationRequest(shape[1], shape[2], feedback, mentioned) :
        shape \in {<<TRUE, "None">>, <<FALSE, "None">>, <<FALSE, "pinned-flow">>},
        feedback \in {<<>>, <<NeverDo>>, <<NotifyIf>>},
        mentioned \in {{}, {"share passwords"}}}
    \cup {FeedbackAsKeys(OrchestrationRequest(TRUE, "None", <<NeverDo>>, {}))}

\* AgentOrchestrator._prepare_run_payload
Payloads ==
    {[kind |-> "structured", request |-> r] : r \in Requests}
    \cup {[kind |-> "natural_language", raw_prompt |-> "please send the update"]}

\* AgentOrchestrator.run: the state_input handed to ainvoke
StateInput(payload) ==
    IF payload.kind = "structured"
      THEN [request |-> payload.request]
      ELSE [raw_prompt |-> payload.raw_prompt, working_notes |-> <<>>,
            events |-> <<>>, status |-> "queued"]

ThreadOf(i) == calls[i].thread_id

\* AgentOrchestrator.get_state: the values of the thread's latest checkpoint
get_state(run_id) == ckpt[run_id]

\* a node returned `updates`: they are merged, the checkpoint is written and the
\* edge to `next` is taken
FinishWith(i, updates, next, h, store) ==
    /\ policy_store' = store
    /\ st' = [st EXCEPT ![i] = Merge(st[i], updates)]
    /\ ckpt' = [ckpt EXCEPT ![ThreadOf(i)] = Merge(st[i], updates)]
    /\ pc' = [pc EXCEPT ![i] = next]
    /\ inflight' = [inflight EXCEPT ![i] = FALSE]
    /\ hist' = [hist EXCEPT ![i] =
                 [h EXCEPT !.executed = @ + 1, !.last_node = pc[i],
                           !.last_grew = Len(Merge(st[i], updates).events)
                                         - Len(st[i].events),
                           !.appended = @ + Len(Merge(st[i], updates).events)
                                          - Len(st[i].events)]]
    /\ UNCHANGED <<service, backends, max_retries, env, calls, raised>>

Finish(i, updates, next, h) == FinishWith(i, updates, next, h, policy_store)

\* a node raised: the exception leaves ainvoke, no update is applied
AbortWith(i, exception, h, store) ==
    /\ policy_store' = store
    /\ pc' = [pc EXCEPT ![i] = "aborted"]
    /\ raised' = [raised EXCEPT ![i] = exception]
    /\ inflight' = [inflight EXCEPT ![i] = FALSE]
    /\ hist' = [hist EXCEPT ![i] =
                 [h EXCEPT !.executed = @ + 1, !.last_node = pc[i], !.last_grew = 0]]
    /\ UNCHANGED <<service, backends, max_retries, env, calls, st, ckpt>>

Abort(i, exception, h) == AbortWith(i, exception, h, policy_store)

Running(i, node) == i \in DOMAIN calls /\ pc[i] = node /\ inflight[i]

\* AgentOrchestrator.run up to the first node: ainvoke loads the thread's
\* checkpoint, overlays state_input and starts at interpret_request
Invoke(i) ==
    /\ i \in DOMAIN calls
    /\ pc[i] = "idle"
    /\ LET base == IF ckpt[ThreadOf(i)] = NoneRec THEN EmptyState ELSE ckpt[ThreadOf(i)]
           s0 == Merge(base, StateInput(calls[i].payload))
       IN  /\ st' = [st EXCEPT ![i] = s0]
           /\ ckpt' = [ckpt EXCEPT ![ThreadOf(i)] = s0]
    /\ pc' = [pc EXCEPT ![i] = "interpret_request"]
    /\ UNCHANGED <<service, backends, max_retries, env, calls, inflight, raised, policy_store, hist>>

\* the graph run calls its next node; the node runs until it returns or raises
NodeBegin(i) ==
    /\ i \in DOMAIN calls
    /\ pc[i] \in Nodes
    /\ ~inflight[i]
    /\ inflight' = [inflight EXCEPT ![i] = TRUE]
    /\ UNCHANGED <<service, backends, max_retries, env, calls, pc, st, raised, ckpt, policy_store, hist>>

\* -------------------------------------------------------- graph.py: nodes

\* str.strip() over the workflow names explored
Strip(text) ==
    IF text = " pinned-flow " THEN "pinned-flow"
    ELSE IF text = "  " THEN ""
    ELSE text

\* decide_workflow that lets the LLM response name the workflow
decide_workflow_LlmPicks(explicit, audience, llm_reason) ==
    IF llm_reason \notin {"None", ""}
      THEN [workflow |-> llm_reason, rationale |-> llm_reason]
      ELSE [workflow |-> "generic-task",
            rationale |-> "No audience or explicit workflow; using generic-task baseline"]

\* OrchestrationReasoner.decide_workflow over metadata.get("workflow") ("None"
\* when absent or not a string), request.audience and the stripped answer of
\* _call_llm_if_configured ("None" without an LLM or when the call fails)
decide_workflow(explicit, audience, llm_reason) ==
    LET chosen ==
            IF explicit # "None" /\ Strip(explicit) # ""
              THEN [workflow |-> Strip(explicit),
                    rationale |-> "Caller pinned workflow via metadata"]
              ELSE IF audience # NoneRec /\ audience.recipients # <<>>
              THEN [workflow |-> "broadcast",
                    rationale |-> "Audience provided; defaulting to broadcast workflow"]
              ELSE [workflow |-> "generic-task",
                    rationale |->
                        "No audience or explicit workflow; using generic-task baseline"]
    IN  [workflow |-> chosen.workflow,
         rationale |-> IF llm_reason \notin {"None", ""}
                         THEN llm_reason ELSE chosen.rationale]

Recipients(request) == IF request.audience THEN <<"+15550001111">> ELSE <<>>

\* decide_workflow for a request of a run; no LLM is configured
DecideWorkflow(request) ==
    decide_workflow(request.metadata_workflow,
                    IF request.audience
                      THEN [recipients |-> Recipients(request)] ELSE NoneRec,
                    "None")

\* interpret_request with no request yet: the interpreted request is stored
InterpretUpdates(s, request) ==
    [status |-> "interpreting",
     request |-> request,
     working_notes |-> Append(s.working_notes, Fmt("Default interpretation applied", <<>>)),
     interpretation_notes |->
         Append(s.interpretation_notes, Fmt("Default interpretation applied", <<>>)),
     events |-> _with_event(s, AgentEvent("intake.interpretation", [used_llm |-> FALSE]))]

\* route_request, lines 106-138: what a retry pass reads from review_feedback
PriorAttemptNotes(s) ==
    IF /\ s.retry_count > 0
       /\ s.review_feedback # NoneRec
       /\ s.review_feedback.review_notes # NoneRec
      THEN LET notes_obj == s.review_feedback.review_notes
               routing == notes_obj.routing_context
           IN    <<Fmt("[Retry {retry_count}] Previous attempt completed at stage: {workflow_stage}",
                       <<s.retry_count, notes_obj.workflow_stage>>)>>
              \o (IF notes_obj.successful_steps # <<>>
                    THEN <<Fmt("Successful steps: {steps}", Take(notes_obj.successful_steps, 3))>>
                    ELSE <<>>)
              \o (IF notes_obj.issues_found # <<>>
                    THEN <<Fmt("Issues encountered: {categories}",
                               {notes_obj.issues_found[k].category :
                                    k \in DOMAIN notes_obj.issues_found})>>
                    ELSE <<>>)
              \o (IF notes_obj.recommendations # <<>>
                    THEN <<Fmt("Recommendations: {recommendations}",
                               Take(notes_obj.recommendations, 2))>>
                    ELSE <<>>)
              \o (IF "failed_plugin" \in DOMAIN routing
                    THEN <<Fmt("Avoid plugin: {failed_plugin}", <<routing.failed_plugin>>)>>
                    ELSE <<>>)
              \o (IF "policy_blocked" \in DOMAIN routing /\ routing.policy_blocked
                    THEN <<Fmt("Policy constraint: {policy_reason}",
                               <<IF "policy_reason" \in DOMAIN routing
                                   THEN routing.policy_reason ELSE "unknown">>)>>
                    ELSE <<>>)
      ELSE <<>>

RouteRequestUpdates(s) ==
    LET decision == DecideWorkflow(s.request)
        prior_notes == s.working_notes \o PriorAttemptNotes(s)
    IN  [status |-> "routing",
         selected_workflow |-> decision.workflow,
         working_notes |-> Append(prior_notes, Fmt(decision.rationale, <<>>)),
         events |-> _with_event(s, AgentEvent("router.decision",
                                              [retry_count |-> s.retry_count]))]

\* policy_check when the decision is allowed
PolicyCheckUpdates(s, decision, captured) ==
    [status |-> "policy_check",
     policy_decision |-> decision,
     requires_human_approval |-> decision.requires_human \/ s.requires_human_approval,
     working_notes |->
            Append(s.working_notes, Fmt("Policy decision: {reason}", <<decision.reason>>))
         \o (IF captured # <<>>
               THEN <<Fmt("Captured {n} policy directive(s)", <<Len(captured)>>)>>
               ELSE <<>>)
         \o <<Fmt("Policy analysis: {policy_analysis}", <<decision.reason>>)>>,
     captured_policy_directives |-> captured,
     events |-> _with_event(s, AgentEvent("policy.review",
                    [allowed |-> decision.allowed,
                     requires_human |-> decision.requires_human,
                     captured_directives |-> captured]))]

\* the snippets in which MemoryService.validate_relevance finds the intent
MentionsIntent(snippet) == snippet = "[demo] Last intent observed: send_update"

\* MemoryService.validate_relevance
ValidateRelevance(snapshot) ==
    IF \E k \in DOMAIN snapshot.memory_snippets : MentionsIntent(snapshot.memory_snippets[k])
      THEN [relevant |-> "true", summary |-> "Relevant snippets present"]
      ELSE [relevant |-> "false", summary |-> "No matched snippets"]

FetchContextUpdates(s, snapshot) ==
    [status |-> "fetching_context",
     retrieved_context |-> snapshot,
     context_validation |-> ValidateRelevance(snapshot),
     working_notes |-> Append(s.working_notes,
                              Fmt("Context hydrated from {provider} memory layer", <<>>)),
     events |-> _with_event(s, AgentEvent("context.fetched",
                    [snippets |-> Len(snapshot.memory_snippets),
                     validation |-> ValidateRelevance(snapshot).summary]))]

\* OrchestrationReasoner.build_plan without an LLM plan
BuildPlan(workflow, context) ==
       <<"analyse_intent">>
    \o (IF Truthy(context) /\ context.memory_snippets # <<>>
          THEN <<"inspect_context">> ELSE <<>>)
    \o <<"prepare_tool_invocation">>

PlanActionsUpdates(s) ==
    LET plan == BuildPlan(s.selected_workflow, s.retrieved_context)
    IN  [status |-> "planning",
         planned_actions |-> plan,
         working_notes |-> Append(s.working_notes,
                 Fmt("Planning agent proposed {n} step(s) for workflow '{workflow}'",
                     <<Len(plan), s.selected_workflow>>)),
         events |-> _with_event(s, AgentEvent("planner.plan_created",
                        [steps |-> Len(plan), workflow |-> s.selected_workflow]))]

AgentReflectionUpdates(s) ==
    [status |-> "reflecting",
     analysis_summary |-> "Intent | Workflow | Plan steps | Memory snippets",
     working_notes |-> Append(s.working_notes,
                              Fmt("Reasoning agent produced reflection summary", <<>>)),
     events |-> _with_event(s, AgentEvent("agent.reflect",
                                          [workflow |-> s.selected_workflow]))]

SelectPluginUpdates(s, plugin_name) ==
    [selected_plugin |-> plugin_name,
     working_notes |-> Append(s.working_notes,
                              Fmt("Selected plugin based on channel", <<>>)),
     events |-> _with_event(s, AgentEvent("plugin.selected", [plugin |-> plugin_name]))]

RenderPayloadUpdates(s) ==
    [rendered_message |-> "[demo] send_update",
     events |-> _with_event(s, AgentEvent("message.rendered", [char_count |-> 18]))]

\* the edge that never dispatches
_plugin_route_Skips(s) == "review_outcome"

_plugin_route(s) == IF s.selected_plugin # "None" THEN "execute_plugin" ELSE "review_outcome"

\* PluginRegistry.get after register_demo_plugin
Registry == {"demo-messaging", "whatsapp", "demo"}

ExecutePluginUpdates(s, result) ==
    [status |-> "dispatching",
     plugin_result |-> result,
     events |-> _with_event(s, AgentEvent("plugin.dispatched",
                                          [dispatched_count |-> result.dispatched_count]))]

ReviewOutcomeUpdates(s, feedback) ==
    [status |-> "reviewing",
     review_feedback |-> feedback,
     requires_human_approval |-> feedback.requires_human \/ s.requires_human_approval,
     working_notes |-> Append(s.working_notes, Fmt("Sentinel review complete", <<>>)),
     events |-> _with_event(s, AgentEvent("agent.review",
                    [approved |-> feedback.approved,
                     requires_human |-> feedback.requires_human,
                     issues |-> feedback.issues]))]

\* the reset without review_feedback and policy_decision
RetryReset_KeepsFeedback ==
    [selected_plugin |-> "None", rendered_message |-> "None",
     plugin_result |-> NoneRec, analysis_summary |-> "None",
     planned_actions |-> <<>>, retrieved_context |-> EmptyDict,
     context_validation |-> EmptyDict]

\* what a RETRY decision resets, graph.py lines 430-442
RetryReset ==
    [selected_plugin |-> "None", rendered_message |-> "None",
     plugin_result |-> NoneRec, review_feedback |-> NoneRec,
     policy_decision |-> NoneRec, analysis_summary |-> "None",
     planned_actions |-> <<>>, retrieved_context |-> EmptyDict,
     context_validation |-> EmptyDict]

run_review_agent(s, maxRetries) ==
    LET decision == Evaluate(s.review_feedback, s.retry_count, maxRetries)
        notes == Append(s.working_notes, decision.message)
    IN  IF decision.action = RETRY
          THEN    [review_agent_message |-> decision.message,
                   review_action |-> decision.action,
                   working_notes |-> notes,
                   retry_count |-> s.retry_count + 1,
                   requires_human_approval |-> FALSE,
                   status |-> "routing",
                   events |-> _with_event(s, AgentEvent("review.agent",
                                  [action |-> decision.action,
                                   retry_count |-> s.retry_count + 1]))]
               @@ RetryReset
          ELSE [review_agent_message |-> decision.message,
                review_action |-> decision.action,
                working_notes |-> notes,
                retry_count |-> s.retry_count,
                status |-> "reviewing",
                events |-> _with_event(s, AgentEvent("review.agent",
                               [action |-> decision.action,
                                retry_count |-> s.retry_count]))]

\* the values of review_action that are no str: the absent channel and a number
NotStr == {"None", "int:1"}

\* ReviewAction(value): the member with that value; "ValueError" when there is
\* none (the lookup is by exact value, no case folding or stripping)
ReviewActionOf(value) == IF value \in ReviewAction THEN value ELSE "ValueError"

\* the route that also goes back after a first COMPLETE
_review_route_Twice(s) ==
    IF s.review_action = RETRY \/ s.retry_count = 0 THEN RETRY ELSE COMPLETE

\* the route that folds case and strips blanks before the lookup
_review_route_Folds(s) ==
    IF s.review_action \in {RETRY, "RETRY", " retry"} THEN RETRY ELSE COMPLETE

\* _review_route: a member is returned as it is (ReviewAction is a str
\* subclass, so a member is its value), a str is looked up, anything else
\* completes
_review_route(s) ==
    LET action == s.review_action
    IN  IF action \in ReviewAction
          THEN action
          ELSE IF action \notin NotStr
          THEN (IF ReviewActionOf(action) = "ValueError"
                  THEN COMPLETE ELSE ReviewActionOf(action))
          ELSE COMPLETE

\* build_langgraph: the targets of the conditional edge after review_agent
ReviewEdges == (RETRY :> "route_request") @@ (COMPLETE :> "update_memory")

UpdateMemoryUpdates(s) ==
    [status |-> "updating_memory",
     memory_updates |-> <<[summary |-> IF s.analysis_summary # "None"
                                         THEN s.analysis_summary
                                         ELSE "Request completed"]>>,
     events |-> _with_event(s, AgentEvent("memory.updated", [entries |-> 1]))]

\* finalize that reports the run as needing no human
FinalizeUpdates_ClearsFlag(s) ==
    [status |-> "completed",
     requires_human_approval |-> FALSE,
     events |-> _with_event(s, AgentEvent("workflow.completed",
                                          [request_id |-> s.request.request_id]))]

FinalizeUpdates(s) ==
    [status |-> "completed",
     requires_human_approval |-> s.requires_human_approval,
     events |-> _with_event(s, AgentEvent("workflow.completed",
                                          [request_id |-> s.request.request_id]))]

\* ------------------------------------------------------ collaborator answers

\* MemoryService.retrieve_context with Graphiti disabled: the two placeholder
\* snippets and the placeholder relation; an empty search result of an enabled
\* Graphiti is replaced the same way, so no run sees zero snippets
Snapshots ==
    {MemorySnapshot(<<"[demo] No prior episodes matched query",
                      "[demo] Last intent observed: send_update">>,
                    <<"[demo] No graph data.">>)}

\* every answer the collaborators can give
AnyAnswer ==
    [interpreted |-> {OrchestrationRequest(FALSE, "None", <<>>, {})},
     status_member |-> BOOLEAN,
     snapshots |-> Snapshots,
     plugin_choices |-> {"demo-messaging", "fail-once-plugin"},
     dispatch_outcomes |-> {"ok", "failed", "raises"},
     sentinel_awaitable |-> BOOLEAN]

\* --------------------------------------------------------- node executions

\* With a request present the node returns {}.  Otherwise the prompt is
\* interpreted; the update names WorkflowStatus.INTERPRETING, which models.py
\* lines 10-21 do not define: building the update raises AttributeError unless
\* the enum has the member.
InterpretRequest(i) ==
    /\ Running(i, "interpret_request")
    /\ IF st[i].request # NoneRec
         THEN Finish(i, EmptyDict, "route_request", hist[i])
         ELSE IF st[i].raw_prompt = "None"
         THEN Abort(i, "ValueError", hist[i])
         ELSE \E request \in env.interpreted, member \in env.status_member :
                IF member
                  THEN Finish(i, InterpretUpdates(st[i], request), "route_request", hist[i])
                  ELSE Abort(i, "AttributeError", hist[i])

RouteRequest(i) ==
    /\ Running(i, "route_request")
    /\ Finish(i, RouteRequestUpdates(st[i]), "policy_check",
              [hist[i] EXCEPT !.routes = @ + 1])

\* policy_check that records a disallowed decision and returns
PolicyCheck_Returns(i) ==
    /\ Running(i, "policy_check")
    /\ LET captured == capture(policy_store, st[i].request)
           decision == PolicyEvaluate(captured.store, st[i].request)
       IN  FinishWith(i, PolicyCheckUpdates(st[i], decision, captured.added),
                      "fetch_context", [hist[i] EXCEPT !.denied = ~decision.allowed],
                      captured.store)

\* capture stores the request's directives, then the request is evaluated
\* against the store; a disallowed decision raises PermissionError before
\* anything is returned, the captured directives stay stored
PolicyCheck(i) ==
    /\ Running(i, "policy_check")
    /\ LET captured == capture(policy_store, st[i].request)
           decision == PolicyEvaluate(captured.store, st[i].request)
       IN  IF ~decision.allowed
             THEN AbortWith(i, "PermissionError", [hist[i] EXCEPT !.denied = TRUE],
                            captured.store)
             ELSE FinishWith(i, PolicyCheckUpdates(st[i], decision, captured.added),
                             "fetch_context", hist[i], captured.store)

\* policy_check of a request of another run: its capture stores a directive in
\* the same process-wide store
CaptureElsewhere ==
    /\ \E d \in {NeverDo, NotifyIf} :
         /\ ~Contains(policy_store["default"], d)
         /\ policy_store' = add_directives(policy_store, "default", <<d>>).store
    /\ UNCHANGED <<service, backends, max_retries, env, calls, pc, inflight, st, raised, ckpt, hist>>

FetchContext(i) ==
    /\ Running(i, "fetch_context")
    /\ \E snapshot \in env.snapshots :
         Finish(i, FetchContextUpdates(st[i], snapshot), "plan_actions", hist[i])

PlanActions(i) ==
    /\ Running(i, "plan_actions")
    /\ Finish(i, PlanActionsUpdates(st[i]), "agent_reflection", hist[i])

AgentReflection(i) ==
    /\ Running(i, "agent_reflection")
    /\ Finish(i, AgentReflectionUpdates(st[i]), "select_plugin", hist[i])

SelectPlugin(i) ==
    /\ Running(i, "select_plugin")
    /\ \E plugin_name \in env.plugin_choices :
         Finish(i, SelectPluginUpdates(st[i], plugin_name), "render_payload", hist[i])

RenderPayload(i) ==
    /\ Running(i, "render_payload")
    /\ Finish(i, RenderPayloadUpdates(st[i]),
              _plugin_route(Merge(st[i], RenderPayloadUpdates(st[i]))), hist[i])

\* a dispatch that leaves out, on a retry pass, whoever is first in the audience
DispatchAudience_SkipsOnRetry(s) ==
    IF s.retry_count > 0 /\ Recipients(s.request) # <<>>
      THEN Tail(Recipients(s.request)) ELSE Recipients(s.request)

\* plugin.dispatch(request, rendered): the plugin is handed the request of the
\* run, whose audience no node changes
DispatchAudience(s) == Recipients(s.request)

\* RuntimeError when no plugin is registered under the name; an exception of
\* plugin.dispatch leaves the node as it is
ExecutePlugin(i) ==
    /\ Running(i, "execute_plugin")
    /\ IF st[i].selected_plugin \notin Registry
         THEN Abort(i, "RuntimeError", hist[i])
         ELSE \E outcome \in env.dispatch_outcomes :
                LET called == [hist[i] EXCEPT
                                 !.dispatches = @ + 1,
                                 !.sent = Append(@, DispatchAudience(st[i]))]
                    everyone == DispatchAudience(st[i])
                    failed == IF outcome = "failed"
                                THEN (IF everyone = <<>> THEN <<"demo">> ELSE everyone)
                                ELSE <<>>
                    result == PluginDispatchResult(st[i].selected_plugin,
                                                   IF outcome = "failed" THEN 0 ELSE 1,
                                                   failed)
                IN  IF outcome = "raises"
                      THEN Abort(i, "PluginError", called)
                      ELSE Finish(i, ExecutePluginUpdates(st[i], result),
                                  "review_outcome", called)

\* graph.py line 378 awaits sentinel.review(state).  review.py line 21 declares
\* review without async, so awaiting the ReviewFeedback it returns raises
\* TypeError; with an awaitable review the feedback is stored.
ReviewOutcome(i) ==
    /\ Running(i, "review_outcome")
    /\ \E awaitable \in env.sentinel_awaitable :
         IF awaitable
           THEN Finish(i, ReviewOutcomeUpdates(st[i], SentinelReview(st[i])),
                       "review_agent",
                       [hist[i] EXCEPT !.last_feedback = SentinelReview(st[i]),
                                       !.reviewed = st[i]])
           ELSE Abort(i, "TypeError", hist[i])

RunReviewAgent(i) ==
    /\ Running(i, "review_agent")
    /\ LET updates == run_review_agent(st[i], max_retries)
       IN  Finish(i, updates, ReviewEdges[_review_route(Merge(st[i], updates))],
                  [hist[i] EXCEPT
                     !.retries = IF updates.review_action = RETRY THEN @ + 1 ELSE @,
                     !.evaluated = [feedback |-> st[i].review_feedback,
                                    retry_count |-> st[i].retry_count,
                                    action |-> updates.review_action,
                                    message |-> updates.review_agent_message]])

UpdateMemory(i) ==
    /\ Running(i, "update_memory")
    /\ Finish(i, UpdateMemoryUpdates(st[i]), "finalize", hist[i])

Finalize(i) ==
    /\ Running(i, "finalize")
    /\ Finish(i, FinalizeUpdates(st[i]), "done", hist[i])

Next ==
    \/ CaptureElsewhere
    \/ \E i \in Invocations :
        \/ Invoke(i)
        \/ NodeBegin(i)
        \/ InterpretRequest(i)
        \/ RouteRequest(i)
        \/ PolicyCheck(i)
        \/ FetchContext(i)
        \/ PlanActions(i)
        \/ AgentReflection(i)
        \/ SelectPlugin(i)
        \/ RenderPayload(i)
        \/ ExecutePlugin(i)
        \/ ReviewOutcome(i)
        \/ RunReviewAgent(i)
        \/ UpdateMemory(i)
        \/ Finalize(i)

\* no consumer task was started and nothing is on the bus
NoService ==
    /\ tasks = <<>>
    /\ consumer_task = 0
    /\ shutdown = FALSE
    /\ request_channel = <<>>
    /\ status_channel = <<>>
    /\ last_call = "None"

\* no backend is under comparison
NoBackends == backends = NoneRec

\* nothing has been invoked yet
NoRuns ==
    /\ pc = [i \in Invocations |-> "idle"]
    /\ inflight = [i \in Invocations |-> FALSE]
    /\ st = [i \in Invocations |-> EmptyState]
    /\ raised = [i \in Invocations |-> "None"]
    /\ ckpt = [t \in Threads |-> NoneRec]
    /\ policy_store = [t \in Tenants |-> <<>>]
    /\ hist = [i \in Invocations |-> EmptyHist]

\* state shared by the specifications of run() calls
Idle == NoRuns /\ NoService /\ NoBackends

\* one run() call on a fresh thread_id
Init ==
    /\ max_retries \in {ReviewAgentMaxRetries(c) : c \in -1 .. MaxRetriesCfg}
    /\ env = AnyAnswer
    /\ calls \in {(1 :> [thread_id |-> "t1", payload |-> p]) : p \in Payloads}
    /\ Idle

Spec == Init /\ [][Next]_vars

\* the collaborators of an undisturbed deployment: the configured plugin, a
\* dispatch that delivers, a review that can be awaited
ConcAnswer ==
    [interpreted |-> {OrchestrationRequest(FALSE, "None", <<>>, {})},
     status_member |-> {TRUE},
     snapshots |-> Snapshots,
     plugin_choices |-> {"demo-messaging"},
     dispatch_outcomes |-> {"ok"},
     sentinel_awaitable |-> {TRUE}]

\* the same run id submitted twice: two run() calls with one thread_id, which
\* run() starts without any per-thread lock (orchestrator.py lines 130-152)
ConcInit ==
    /\ max_retries = ReviewAgentMaxRetries(1)
    /\ env = ConcAnswer
    /\ calls \in {(1 :> [thread_id |-> "t1", payload |-> p])
                    @@ (2 :> [thread_id |-> "t1", payload |-> p]) :
                  p \in {[kind |-> "structured",
                          request |-> OrchestrationRequest(a, "None", <<>>, {})] :
                            a \in BOOLEAN}}
    /\ Idle

ConcSpec == ConcInit /\ [][Next]_vars

\* the issues a feedback can carry: the six the Sentinel builds and a minor
\* one it does not
IssueKinds ==
    {ReviewIssue("plugin", "Plugin delivery failed", "high", TRUE),
     ReviewIssue("planning", "No actions were planned for execution", "medium", TRUE),
     ReviewIssue("policy", "Policy requires human approval", "high", FALSE),
     ReviewIssue("policy", "Policy check failed", "critical", FALSE),
     ReviewIssue("context", "No relevant context retrieved from memory", "low", TRUE),
     ReviewIssue("execution", "Execution error", "critical", TRUE),
     ReviewIssue("unknown", "Cosmetic difference", "low", FALSE)}

RECURSIVE SeqsUpTo(_, _)
SeqsUpTo(S, n) ==
    IF n = 0 THEN {<<>>}
    ELSE SeqsUpTo(S, n - 1)
         \cup {Append(xs, x) : xs \in {ys \in SeqsUpTo(S, n - 1) : Len(ys) = n - 1}, x \in S}

\* the state review_outcome sees after a pass whose dispatch failed
PluginFailedPass ==
    LET snapshot == CHOOSE sn \in Snapshots : TRUE
    IN  [EmptyState EXCEPT
           !.request = OrchestrationRequest(TRUE, "None", <<>>, {}),
           !.status = "dispatching",
           !.selected_workflow = "knowledge-update",
           !.policy_decision = PolicyDecision(TRUE, FALSE, Fmt("Policy check passed", <<>>)),
           !.retrieved_context = snapshot,
           !.context_validation = ValidateRelevance(snapshot),
           !.planned_actions = BuildPlan("knowledge-update", snapshot),
           !.analysis_summary = "Intent | Workflow | Plan steps | Memory snippets",
           !.selected_plugin = "demo-messaging",
           !.rendered_message = "[demo] send_update",
           !.plugin_result = PluginDispatchResult("demo-messaging", 0, <<"alice">>)]

PluginFailedFeedback == SentinelReview(PluginFailedPass)

\* the review_feedback values handed to ReviewAgent.evaluate: none, the
\* Sentinel's feedback for a failed dispatch, and feedback objects with any
\* approval, issue list, issue notes and review notes
Feedbacks ==
    {NoneRec, PluginFailedFeedback}
    \cup {ReviewFeedback(approved, ~approved,
                         Fmt(IF approved THEN "" ELSE "Workflow completed", <<>>),
                         issues, detailed,
                         IF with_notes
                           THEN ReviewNotes("reviewing", detailed, <<>>,
                                  <<"Consider retrying with different delivery channel",
                                    "Review workflow selection and planning logic",
                                    "Refine context retrieval strategy">>,
                                  EmptyDict)
                           ELSE NoneRec) :
             approved \in BOOLEAN,
             issues \in {<<>>, <<"One or more plugin deliveries failed">>},
             detailed \in SeqsUpTo(IssueKinds, MaxIssues),
             with_notes \in BOOLEAN}

\* ReviewAgent.evaluate called through run_review_agent on any feedback, any
\* retry_count and any configured budget
EvalInit ==
    /\ max_retries \in {ReviewAgentMaxRetries(c) : c \in -1 .. MaxRetriesCfg}
    /\ env = AnyAnswer
    /\ calls = (1 :> [thread_id |-> "t1",
                      payload |-> [kind |-> "structured",
                                   request |-> OrchestrationRequest(TRUE, "None", <<>>, {})]])
    /\ pc = [i \in Invocations |-> IF i = 1 THEN "review_agent" ELSE "idle"]
    /\ inflight = [i \in Invocations |-> i = 1]
    /\ \E feedback \in Feedbacks, retry_count \in 0 .. MaxRetryCount :
         st = [i \in Invocations |->
                 IF i = 1
                   THEN [PluginFailedPass EXCEPT !.status = "reviewing",
                                                 !.review_feedback = feedback,
                                                 !.retry_count = retry_count]
                   ELSE EmptyState]
    /\ raised = [i \in Invocations |-> "None"]
    /\ ckpt = [t \in Threads |-> NoneRec]
    /\ policy_store = [t \in Tenants |-> <<>>]
    /\ hist = [i \in Invocations |-> EmptyHist]
    /\ NoService
    /\ NoBackends

EvalNext == \E i \in Invocations : RunReviewAgent(i)

EvalSpec == EvalInit /\ [][EvalNext]_vars

\* the states AgentSentinel.review is handed: every combination of a prior
\* human-approval flag, a plugin result, a plan, a policy decision, a retrieved
\* context, a context validation, an error and a selected workflow
ReviewedStates ==
    {[PluginFailedPass EXCEPT
        !.requires_human_approval = flagged,
        !.plugin_result = result,
        !.planned_actions = plan,
        !.policy_decision = decision,
        !.retrieved_context = context,
        !.context_validation = validation,
        !.error = error,
        !.selected_workflow = workflow] :
      flagged \in BOOLEAN,
      result \in {NoneRec}
                 \cup {PluginDispatchResult(name, IF failed = <<>> THEN 1 ELSE 0, failed) :
                         name \in {"demo-messaging", "whatsapp"},
                         failed \in {<<>>, <<"alice">>}},
      plan \in {<<>>, <<"analyse_intent", "prepare_tool_invocation">>},
      decision \in {NoneRec}
                   \cup {PolicyDecision(allowed, human, Fmt("Policy reason", <<>>)) :
                           allowed \in BOOLEAN, human \in BOOLEAN},
      context \in {NoneRec, MemorySnapshot(<<>>, <<>>)} \cup Snapshots,
      validation \in {NoneRec,
                      [relevant |-> "true", summary |-> "Relevant snippets present"],
                      [relevant |-> "false", summary |-> "Insufficient context"]},
      error \in {"None", "plugin timeout"},
      workflow \in {"None", "knowledge-update"}}

\* AgentSentinel.review called through review_outcome on any such state, and
\* ReviewAgent.evaluate on its feedback
SentinelInit ==
    /\ max_retries \in {ReviewAgentMaxRetries(c) : c \in -1 .. MaxRetriesCfg}
    /\ env = AnyAnswer
    /\ calls = (1 :> [thread_id |-> "t1",
                      payload |-> [kind |-> "structured",
                                   request |-> OrchestrationRequest(TRUE, "None", <<>>, {})]])
    /\ pc = [i \in Invocations |-> IF i = 1 THEN "review_outcome" ELSE "idle"]
    /\ inflight = [i \in Invocations |-> i = 1]
    /\ \E s \in ReviewedStates, retry_count \in 0 .. MaxRetriesCfg :
         st = [i \in Invocations |->
                 IF i = 1 THEN [s EXCEPT !.retry_count = retry_count] ELSE EmptyState]
    /\ raised = [i \in Invocations |-> "None"]
    /\ ckpt = [t \in Threads |-> NoneRec]
    /\ policy_store = [t \in Tenants |-> <<>>]
    /\ hist = [i \in Invocations |-> EmptyHist]
    /\ NoService
    /\ NoBackends

SentinelNext ==
    \E i \in Invocations :
        \/ ReviewOutcome(i)
        \/ RunReviewAgent(i)
        \/ pc[i] = "review_agent" /\ NodeBegin(i)

SentinelSpec == SentinelInit /\ [][SentinelNext]_vars

\* the directive lists a store can hold: no directive twice
StoredLists ==
    {xs \in SeqsUpTo({NeverDo, NeverWire, NotifyIf}, MaxStored) :
        \A j, k \in DOMAIN xs : j # k => xs[j] # xs[k]}

\* requests handed to capture and evaluate: either tenant, an escalation
\* intent or not, feedback phrases (one of them twice, in another case), and
\* text in which stored patterns occur in either case
PolicyRequests ==
    {[OrchestrationRequest(TRUE, "None", feedback, mentioned)
        EXCEPT !.tenant_id = tenant, !.intent = intent] :
      tenant \in Tenants,
      intent \in {"send_update", "escalate_issue"},
      feedback \in {<<>>, <<NotifyIf>>,
                    <<NeverDo, PolicyDirective("never_do", "Share Passwords")>>},
      mentioned \in {{}, {"Share Passwords"}, {"Invoice Overdue"},
                     {"wire money", "share passwords"}}}

\* PolicyFeedbackAgent.capture and PolicyEngine.evaluate called directly on a
\* store that already holds directives
PolicyInit ==
    /\ max_retries = ReviewAgentMaxRetries(1)
    /\ env = AnyAnswer
    /\ calls \in {(1 :> [thread_id |-> "t1",
                          payload |-> [kind |-> "structured", request |-> r]]) :
                  r \in PolicyRequests}
    /\ pc = [i \in Invocations |-> "idle"]
    /\ inflight = [i \in Invocations |-> FALSE]
    /\ st = [i \in Invocations |-> EmptyState]
    /\ raised = [i \in Invocations |-> "None"]
    /\ ckpt = [t \in Threads |-> NoneRec]
    /\ policy_store \in [Tenants -> StoredLists]
    /\ hist = [i \in Invocations |-> EmptyHist]
    /\ NoService
    /\ NoBackends

\* the capture calls invocation i has made
CaptureCount(i) == IF hist[i].captured = NoneRec THEN 0 ELSE hist[i].captured.nth

\* feedback_agent.capture(request)
CaptureCall(i) ==
    /\ i \in DOMAIN calls
    /\ CaptureCount(i) < MaxCaptures
    /\ LET request == calls[i].payload.request
           result == capture(policy_store, request)
       IN  /\ policy_store' = result.store
           /\ hist' = [hist EXCEPT ![i].captured =
                         [request |-> request,
                          before |-> policy_store,
                          after |-> result.store,
                          added |-> result.added,
                          first_after |-> IF hist[i].captured = NoneRec
                                            THEN result.store
                                            ELSE hist[i].captured.first_after,
                          nth |-> CaptureCount(i) + 1]]
    /\ UNCHANGED <<service, backends, max_retries, env, calls, pc, inflight, st, raised, ckpt>>

\* policy_engine.evaluate(request)
EvaluateCall(i) ==
    /\ i \in DOMAIN calls
    /\ LET request == calls[i].payload.request
       IN  hist' = [hist EXCEPT ![i].decided =
                      [request |-> request,
                       store |-> policy_store,
                       decision |-> PolicyEvaluate(policy_store, request)]]
    /\ UNCHANGED <<service, backends, max_retries, env, calls, pc, inflight, st, raised, ckpt, policy_store>>

PolicyNext == \E i \in Invocations : CaptureCall(i) \/ EvaluateCall(i)

PolicySpec == PolicyInit /\ [][PolicyNext]_vars

\* the batches handed to add_directives: any directives, also one twice
Batches == SeqsUpTo({NeverDo, NeverWire, NotifyIf}, MaxBatch)

\* store.add_directives(tenant_id, batch) called directly, also with the empty
\* tenant id
AddDirectivesCall(i) ==
    /\ i \in DOMAIN calls
    /\ \E tenant_id \in Tenants \cup {""}, batch \in Batches :
         LET result == add_directives(policy_store, tenant_id, batch)
         IN  /\ policy_store' = result.store
             /\ hist' = [hist EXCEPT ![i].stored =
                           [tenant_id |-> tenant_id, batch |-> batch,
                            added |-> result.added]]
    /\ UNCHANGED <<service, backends, max_retries, env, calls, pc, inflight, st, raised, ckpt>>

\* feedback_agent.capture(request) for any request
CaptureAny(i) ==
    /\ i \in DOMAIN calls
    /\ \E request \in PolicyRequests :
         LET result == capture(policy_store, request)
         IN  /\ policy_store' = result.store
             /\ hist' = [hist EXCEPT ![i].stored =
                           [tenant_id |-> request.tenant_id,
                            batch |-> request.policy_feedback,
                            added |-> result.added]]
    /\ UNCHANGED <<service, backends, max_retries, env, calls, pc, inflight, st, raised, ckpt>>

\* a fresh process: the store holds nothing
StoreInit ==
    /\ max_retries = ReviewAgentMaxRetries(1)
    /\ env = AnyAnswer
    /\ calls = (1 :> [thread_id |-> "t1", payload |-> [kind |-> "store"]])
    /\ Idle

StoreNext == \E i \in Invocations : AddDirectivesCall(i) \/ CaptureAny(i)

StoreSpec == StoreInit /\ [][StoreNext]_vars

\* a request that carries a feedback phrase and any other request, handed to
\* capture and evaluate in any order
RoundTripInit ==
    /\ max_retries = ReviewAgentMaxRetries(1)
    /\ env = AnyAnswer
    /\ calls \in {(1 :> [thread_id |-> "t1",
                          payload |-> [kind |-> "structured", request |-> r1]])
                    @@ (2 :> [thread_id |-> "t2",
                              payload |-> [kind |-> "structured", request |-> r2]]) :
                  r1 \in {r \in PolicyRequests :
                            r.policy_feedback # <<>> /\ r.intent = "send_update"},
                  r2 \in PolicyRequests}
    /\ Idle

RoundTripSpec == RoundTripInit /\ [][PolicyNext]_vars

\* what the LLM may answer to the workflow prompt: nothing, an empty text, or
\* a text that names a workflow
LlmAnswers == {"None", "", "broadcast", "Use the broadcast workflow for this request"}

\* the inputs of decide_workflow: metadata.workflow absent, empty, blank,
\* padded or naming broadcast; no audience, an audience with a segment only, an
\* audience with a recipient; any LLM answer
WorkflowInputs ==
    {[kind |-> "workflow", explicit |-> explicit, audience |-> audience,
      llm_reason |-> llm_reason] :
        explicit \in {"None", "", "  ", " pinned-flow ", "broadcast"},
        audience \in {NoneRec, [recipients |-> <<>>],
                       [recipients |-> <<"+15550001111">>]},
        llm_reason \in LlmAnswers}

RouterInit ==
    /\ max_retries = ReviewAgentMaxRetries(1)
    /\ env = AnyAnswer
    /\ calls \in {(1 :> [thread_id |-> "t1", payload |-> p]) : p \in WorkflowInputs}
    /\ Idle

\* reasoner.decide_workflow(request)
DecideWorkflowCall(i) ==
    /\ i \in DOMAIN calls
    /\ hist' = [hist EXCEPT ![i].routed =
                  decide_workflow(calls[i].payload.explicit, calls[i].payload.audience,
                                  calls[i].payload.llm_reason)]
    /\ UNCHANGED <<service, backends, max_retries, env, calls, pc, inflight, st, raised, ckpt, policy_store>>

RouterNext == \E i \in Invocations : DecideWorkflowCall(i)

RouterSpec == RouterInit /\ [][RouterNext]_vars

\* two run() calls with different thread_ids in one process: the first request
\* may carry a feedback phrase, the second may name "share passwords"; each is
\* of either tenant
IsoInit ==
    /\ max_retries = ReviewAgentMaxRetries(0)
    /\ env = ConcAnswer
    /\ calls \in {(1 :> [thread_id |-> "t1",
                          payload |-> [kind |-> "structured", request |-> r1]])
                    @@ (2 :> [thread_id |-> "t2",
                              payload |-> [kind |-> "structured", request |-> r2]]) :
                  r1 \in {[OrchestrationRequest(TRUE, "None", feedback, {})
                             EXCEPT !.tenant_id = tenant] :
                            tenant \in Tenants,
                            feedback \in {<<>>, <<NeverDo>>, <<NotifyIf>>}},
                  r2 \in {[OrchestrationRequest(TRUE, "None", <<>>, mentioned)
                             EXCEPT !.tenant_id = tenant] :
                            tenant \in Tenants,
                            mentioned \in {{}, {"Share Passwords"}}}}
    /\ Idle

\* the steps of the two runs; no third run captures directives
IsoNext ==
    \E i \in Invocations :
        \/ Invoke(i)
        \/ NodeBegin(i)
        \/ InterpretRequest(i)
        \/ RouteRequest(i)
        \/ PolicyCheck(i)
        \/ FetchContext(i)
        \/ PlanActions(i)
        \/ AgentReflection(i)
        \/ SelectPlugin(i)
        \/ RenderPayload(i)
        \/ ExecutePlugin(i)
        \/ ReviewOutcome(i)
        \/ RunReviewAgent(i)
        \/ UpdateMemory(i)
        \/ Finalize(i)

IsoSpec == IsoInit /\ [][IsoNext]_vars

\* what the review_action channel may hold when the conditional edge after
\* review_agent is evaluated: a member or its value, nothing, a number, and
\* strings that are no value of ReviewAction
ReviewActionValues == {RETRY, COMPLETE, "None", "int:1", "RETRY", " retry", "proceed", ""}

\* a pass that review_agent has just left, with any review_action
ReviewRouteInit ==
    /\ max_retries = ReviewAgentMaxRetries(1)
    /\ env = AnyAnswer
    /\ calls = (1 :> [thread_id |-> "t1",
                      payload |-> [kind |-> "structured",
                                   request |-> OrchestrationRequest(TRUE, "None", <<>>, {})]])
    /\ pc = [i \in Invocations |-> IF i = 1 THEN "review_route" ELSE "idle"]
    /\ inflight = [i \in Invocations |-> FALSE]
    /\ \E action \in ReviewActionValues, retry_count \in 0 .. MaxRetryCount :
         st = [i \in Invocations |->
                 IF i = 1
                   THEN [PluginFailedPass EXCEPT !.status = "reviewing",
                                                 !.review_action = action,
                                                 !.retry_count = retry_count]
                   ELSE EmptyState]
    /\ raised = [i \in Invocations |-> "None"]
    /\ ckpt = [t \in Threads |-> NoneRec]
    /\ policy_store = [t \in Tenants |-> <<>>]
    /\ hist = [i \in Invocations |-> EmptyHist]
    /\ NoService
    /\ NoBackends

\* the conditional edge after review_agent: _review_route is called on the
\* state and its answer is looked up in the edge map
ReviewRouteCall(i) ==
    /\ i \in DOMAIN calls
    /\ pc[i] = "review_route"
    /\ pc' = [pc EXCEPT ![i] = ReviewEdges[_review_route(st[i])]]
    /\ hist' = [hist EXCEPT ![i].routed = [action |-> st[i].review_action,
                                           route |-> _review_route(st[i])]]
    /\ UNCHANGED <<service, backends, max_retries, env, calls, inflight, st, raised, ckpt, policy_store>>

\* the edge and the node it leads to
ReviewRouteNext ==
    \E i \in Invocations :
        \/ ReviewRouteCall(i)
        \/ NodeBegin(i)
        \/ RouteRequest(i)
        \/ UpdateMemory(i)
        \/ Finalize(i)

ReviewRouteSpec == ReviewRouteInit /\ [][ReviewRouteNext]_vars

\* a policies collection that holds a document written by an earlier process,
\* one of its entries with a directive this version does not support
PersistedCollection ==
    [docs |-> [t \in Tenants |->
                 IF t = "tenant-123"
                   THEN <<to_record(NeverWire),
                          [directive |-> "always_do", pattern |-> "greet"]>>
                   ELSE <<>>]]

\* the batches handed to both backends: either directive, also one twice
BackendBatches == SeqsUpTo({NeverDo, NeverWire}, MaxBatch)

\* InMemoryPolicyStore() next to MongoPolicyStore(collection), constructed
\* with or without a collection, in a process with or without a configured
\* MongoDB
BackendInit ==
    /\ max_retries = ReviewAgentMaxRetries(1)
    /\ env = AnyAnswer
    /\ calls = (1 :> [thread_id |-> "t1", payload |-> [kind |-> "store"]])
    /\ NoRuns
    /\ NoService
    /\ \E collection \in {NoneRec, PersistedCollection},
          configured \in {NoneRec, PersistedCollection} :
         backends = [memory |-> [t \in Tenants |-> <<>>],
                     mongo |-> MongoPolicyStore(collection, configured, Tenants),
                     without_collection |-> collection = NoneRec,
                     answers |-> NoneRec]

\* get_directives(tenant_id) on both backends
GetDirectivesBoth ==
    /\ \E tenant_id \in Tenants \cup {""} :
         LET got == MongoGetDirectives(backends.mongo, tenant_id)
         IN  backends' = [backends EXCEPT
                            !.mongo = got.store,
                            !.answers = [op |-> "get_directives",
                                         memory |-> get_directives(backends.memory,
                                                                   tenant_id),
                                         mongo |-> got.result]]
    /\ UNCHANGED <<service, max_retries, env, calls, pc, inflight, st, raised, ckpt,
                   policy_store, hist>>

\* add_directives(tenant_id, batch) on both backends
AddDirectivesBoth ==
    /\ \E tenant_id \in Tenants \cup {""}, batch \in BackendBatches :
         LET mem == add_directives(backends.memory, tenant_id, batch)
             mgo == MongoAddDirectives(backends.mongo, tenant_id, batch)
         IN  backends' = [backends EXCEPT
                            !.memory = mem.store,
                            !.mongo = mgo.store,
                            !.answers = [op |-> "add_directives",
                                         memory |-> mem.added,
                                         mongo |-> mgo.added]]
    /\ UNCHANGED <<service, max_retries, env, calls, pc, inflight, st, raised, ckpt,
                   policy_store, hist>>

BackendNext == GetDirectivesBoth \/ AddDirectivesBoth

BackendSpec == BackendInit /\ [][BackendNext]_vars

\* ------------------------------------- services/orchestrator.py: consumer

\* the channels of the state that hold a string, and those that hold an object
StrChannels ==
    {"raw_prompt", "status", "selected_workflow", "analysis_summary",
     "selected_plugin", "rendered_message", "error", "review_action"}

ObjChannels ==
    {"request", "policy_decision", "retrieved_context", "context_validation",
     "plugin_result", "review_feedback", "review_agent_message"}

\* serialize_state: dict(state) holds the channels that were written; the
\* models among them are dumped to plain values, the status to its value
serialize_state(s) ==
    LET unset == {k \in StrChannels : s[k] = "None"}
                 \cup {k \in ObjChannels : s[k] = NoneRec}
    IN  [k \in DOMAIN s \ unset |-> s[k]]

\* what json.loads yields for the messages on the request channel: a
\* structured request that runs to the end, one that policy_check denies, one
\* that does not validate, a prompt, a natural_language payload without a
\* prompt, a payload of an unknown kind, and a JSON value that is no object
RequestMessages ==
    {[json |-> "object", kind |-> "structured", raw_prompt |-> "None",
      request |-> OrchestrationRequest(TRUE, "None", <<>>, {})],
     [json |-> "object", kind |-> "structured", raw_prompt |-> "None",
      request |-> OrchestrationRequest(TRUE, "None", <<NeverDo>>, {})],
     [json |-> "object", kind |-> "structured", raw_prompt |-> "None",
      request |-> NoneRec],
     [json |-> "object", kind |-> "natural_language",
      raw_prompt |-> "please send the update", request |-> NoneRec],
     [json |-> "object", kind |-> "natural_language", raw_prompt |-> "None",
      request |-> NoneRec],
     [json |-> "object", kind |-> "batch", raw_prompt |-> "None", request |-> NoneRec],
     [json |-> "array", kind |-> "None", raw_prompt |-> "None", request |-> NoneRec]}

\* payload.get("run_id") of the message in a slot: every message has its own
RunIdOf(slot) == IF slot = 1 THEN "t1" ELSE "t2"

\* the collaborators of the consumed runs: the dispatch delivers, the review
\* can be awaited, interpret_request returns or raises
ServiceAnswer ==
    [ConcAnswer EXCEPT !.status_member = BOOLEAN]

\* AgentOrchestrator.__init__: no consumer task; the request channel holds the
\* messages that are going to be delivered to a listener, one per slot
ConsumerInit ==
    /\ max_retries = ReviewAgentMaxRetries(0)
    /\ env = ServiceAnswer
    /\ calls = <<>>
    /\ NoRuns
    /\ NoBackends
    /\ tasks = <<>>
    /\ consumer_task = 0
    /\ shutdown = FALSE
    /\ request_channel \in
           {[k \in 1 .. n |-> [slot |-> k, payload |-> ms[k]]] :
               n \in Invocations, ms \in [Invocations -> RequestMessages]}
    /\ status_channel = <<>>
    /\ last_call = "None"

\* start() that creates a task whenever it is called
NeedsTask_Always(task, created) == TRUE

\* the test of start(): no task, or a task that is done
NeedsTask(task, created) ==
    IF task = 0 THEN TRUE ELSE created[task].state # "active"

\* AgentOrchestrator.start
Start ==
    /\ Len(tasks) < MaxTasks
    /\ IF NeedsTask(consumer_task, tasks)
         THEN /\ shutdown' = FALSE
              /\ tasks' = Append(tasks, [state |-> "active", at |-> "listen", slot |-> 0])
              /\ consumer_task' = Len(tasks) + 1
         ELSE UNCHANGED <<shutdown, tasks, consumer_task>>
    /\ last_call' = "start returned"
    /\ UNCHANGED <<request_channel, status_channel, backends, max_retries, env, calls,
                   pc, inflight, st, raised, ckpt, policy_store, hist>>

\* AgentOrchestrator.stop.  An active task is cancelled, whatever it awaits
\* (the next message, a node of its run, a publish), and awaiting it raises
\* CancelledError, which is swallowed.  A task that ended with an exception
\* raises that exception from the await: stop() raises it and keeps the task.
Stop ==
    /\ IF consumer_task = 0
         THEN /\ last_call' = "stop returned"
              /\ UNCHANGED <<shutdown, tasks, consumer_task, pc, inflight>>
         ELSE /\ shutdown' = TRUE
              /\ IF tasks[consumer_task].state = "failed"
                   THEN /\ last_call' = "stop raised"
                        /\ UNCHANGED <<tasks, consumer_task, pc, inflight>>
                   ELSE /\ last_call' = "stop returned"
                        /\ consumer_task' = 0
                        /\ IF tasks[consumer_task].state = "active"
                             THEN LET task == tasks[consumer_task]
                                      running == task.at = "run"
                                                 /\ pc[task.slot] \in Nodes \cup {"idle"}
                                  IN  /\ tasks' = [tasks EXCEPT
                                                     ![consumer_task].state = "cancelled"]
                                      /\ pc' = IF running
                                                 THEN [pc EXCEPT ![task.slot] = "cancelled"]
                                                 ELSE pc
                                      /\ inflight' = IF running
                                                       THEN [inflight EXCEPT
                                                               ![task.slot] = FALSE]
                                                       ELSE inflight
                             ELSE UNCHANGED <<tasks, pc, inflight>>
    /\ UNCHANGED <<request_channel, status_channel, backends, max_retries, env, calls,
                   st, raised, ckpt, policy_store, hist>>

\* _consume_loop, lines 163-199: the listener yields the next message.  A
\* payload that is no object has no get(): AttributeError leaves the loop.  A
\* request that does not validate, a missing prompt and an unknown kind are
\* logged and skipped.  Otherwise the loop awaits run() for the message.
ConsumeMessage(t) ==
    /\ t \in DOMAIN tasks
    /\ tasks[t].state = "active"
    /\ tasks[t].at = "listen"
    /\ request_channel # <<>>
    /\ request_channel' = Tail(request_channel)
    /\ LET slot == Head(request_channel).slot
           payload == Head(request_channel).payload
           valid == IF payload.json # "object" THEN FALSE
                    ELSE IF payload.kind = "structured" THEN payload.request # NoneRec
                    ELSE IF payload.kind = "natural_language"
                      THEN payload.raw_prompt # "None"
                    ELSE FALSE
       IN  IF shutdown
             THEN /\ tasks' = [tasks EXCEPT ![t].state = "returned"]
                  /\ UNCHANGED calls
             ELSE IF payload.json # "object"
             THEN /\ tasks' = [tasks EXCEPT ![t].state = "failed"]
                  /\ UNCHANGED calls
             ELSE IF valid
             THEN /\ tasks' = [tasks EXCEPT ![t].at = "run", ![t].slot = slot]
                  /\ calls' = calls @@
                        (slot :> [thread_id |-> RunIdOf(slot),
                                  payload |->
                                    IF payload.kind = "structured"
                                      THEN [kind |-> "structured",
                                            request |-> payload.request]
                                      ELSE [kind |-> "natural_language",
                                            raw_prompt |-> payload.raw_prompt]])
             ELSE UNCHANGED <<tasks, calls>>
    /\ UNCHANGED <<consumer_task, shutdown, status_channel, last_call, backends,
                   max_retries, env, pc, inflight, st, raised, ckpt, policy_store, hist>>

\* the loop publishes `payload` for the run it awaited and listens again
PublishStatus(t, payload) ==
    /\ status_channel' = Append(status_channel, payload)
    /\ tasks' = [tasks EXCEPT ![t].at = "listen"]
    /\ UNCHANGED <<consumer_task, shutdown, request_channel, last_call, backends,
                   max_retries, env, calls, pc, inflight, st, raised, ckpt,
                   policy_store, hist>>

\* _consume_loop, lines 213-215: run() returned the final state
RunReturns(t) ==
    /\ t \in DOMAIN tasks
    /\ tasks[t].state = "active"
    /\ tasks[t].at = "run"
    /\ pc[tasks[t].slot] = "done"
    /\ LET serialized == serialize_state(st[tasks[t].slot])
       IN  PublishStatus(t, [run_id |-> RunIdOf(tasks[t].slot),
                             status |-> serialized.status] @@ serialized)

\* _consume_loop, lines 203-211: run() raised
RunRaises(t) ==
    /\ t \in DOMAIN tasks
    /\ tasks[t].state = "active"
    /\ tasks[t].at = "run"
    /\ pc[tasks[t].slot] = "aborted"
    /\ PublishStatus(t, [run_id |-> RunIdOf(tasks[t].slot),
                         status |-> "failed",
                         error |-> raised[tasks[t].slot]])

\* the steps of the consumer task
ConsumerStep ==
    \E t \in 1 .. MaxTasks : ConsumeMessage(t) \/ RunReturns(t) \/ RunRaises(t)

\* a run goes on to its next node
RunStarts == \E i \in Invocations : Invoke(i) \/ NodeBegin(i)

\* a node that awaited a collaborator (reasoner, policy store, memory service,
\* plugin, sentinel) returns or raises: the collaborator has answered
CollaboratorAnswers ==
    \E i \in Invocations :
        \/ InterpretRequest(i)
        \/ RouteRequest(i)
        \/ PolicyCheck(i)
        \/ FetchContext(i)
        \/ PlanActions(i)
        \/ AgentReflection(i)
        \/ SelectPlugin(i)
        \/ RenderPayload(i)
        \/ ExecutePlugin(i)
        \/ ReviewOutcome(i)
        \/ UpdateMemory(i)

\* review_agent and finalize await nothing
NodeReturns == \E i \in Invocations : RunReviewAgent(i) \/ Finalize(i)

ConsumerNext ==
    Start \/ Stop \/ ConsumerStep \/ RunStarts \/ CollaboratorAnswers \/ NodeReturns

ConsumerSpec == ConsumerInit /\ [][ConsumerNext]_vars

\* the event loop runs every coroutine that is ready: the consumer takes the
\* next message and publishes, a run calls its next node.  Nothing makes a
\* collaborator answer: the engine has no timeout of its own.
ConsumerFairSpec ==
    ConsumerSpec /\ WF_vars(ConsumerStep) /\ WF_vars(RunStarts) /\ WF_vars(NodeReturns)

\* the scheduler runs every started run on: each collaborator call returns
FairSpec == Spec /\ WF_vars(Next)

\* ------------------------------------------------------------------ claims

Done(i) == pc[i] \in {"done", "aborted"}

AfterNode(i, node) == hist[i].last_node = node /\ ~inflight[i]

\* C1: retry_count equals the number of RETRY decisions review_agent has taken
\* so far in the run and never exceeds max_retries.
C1_RetryCountCountsRetries ==
    \A i \in DOMAIN calls :
        /\ st[i].retry_count = hist[i].retries
        /\ st[i].retry_count <= max_retries

\* the budget is used up and one more RETRY has been denied
C1_Witness ==
    \E i \in DOMAIN calls :
        /\ max_retries = MaxRetriesCfg
        /\ st[i].retry_count = max_retries
        /\ AfterNode(i, "review_agent")
        /\ hist[i].evaluated.retry_count = max_retries
        /\ hist[i].evaluated.action = COMPLETE
        /\ ~hist[i].evaluated.feedback.approved

\* C2: every run terminates: route_request executes at most max_retries + 1
\* times, and the run ends at finalize with status completed or aborts with an
\* exception.
C2_RunTerminates ==
    /\ [](\A i \in DOMAIN calls : hist[i].routes <= max_retries + 1)
    /\ [](\A i \in DOMAIN calls :
            /\ pc[i] = "done" => st[i].status = "completed" /\ raised[i] = "None"
            /\ pc[i] = "aborted" => raised[i] # "None")
    /\ <>(\A i \in DOMAIN calls : Done(i))

\* a run that used its whole budget and completed
C2_Witness ==
    \E i \in DOMAIN calls :
        /\ pc[i] = "done"
        /\ max_retries = MaxRetriesCfg
        /\ hist[i].routes = max_retries + 1

\* C3: once policy_check has found the request disallowed the run is aborted
\* in that node: no node executes afterwards, nothing is dispatched, no RETRY is
\* taken and the run state does not change.
C3_DenialAborts ==
    [][\A i \in DOMAIN calls :
         /\ hist'[i].denied =>
              /\ pc'[i] = "aborted"
              /\ raised'[i] = "PermissionError"
              /\ hist'[i].last_node = "policy_check"
              /\ st'[i] = st[i]
         /\ hist[i].denied => hist'[i] = hist[i] /\ ~inflight'[i]]_vars

\* a denial on a retry pass
C3_Witness ==
    \E i \in DOMAIN calls :
        /\ hist[i].denied
        /\ st[i].retry_count >= 1
        /\ hist[i].dispatches >= 1

\* C4: right after a review_agent execution that decided RETRY, retry_count is
\* one greater than before, status is routing, requires_human_approval is false,
\* the six stage fields are cleared and the three collections are empty.
C4_RetryResets ==
    \A i \in DOMAIN calls :
        (AfterNode(i, "review_agent") /\ hist[i].evaluated.action = RETRY) =>
            /\ st[i].retry_count = hist[i].evaluated.retry_count + 1
            /\ st[i].status = "routing"
            /\ st[i].requires_human_approval = FALSE
            /\ st[i].selected_plugin = "None"
            /\ st[i].rendered_message = "None"
            /\ st[i].plugin_result = NoneRec
            /\ st[i].review_feedback = NoneRec
            /\ st[i].policy_decision = NoneRec
            /\ st[i].analysis_summary = "None"
            /\ st[i].planned_actions = <<>>
            /\ st[i].retrieved_context = EmptyDict
            /\ st[i].context_validation = EmptyDict

\* a RETRY decided on a pass that had filled the stage fields
C4_Witness ==
    \E i \in DOMAIN calls :
        /\ AfterNode(i, "review_agent")
        /\ hist[i].evaluated.action = RETRY
        /\ hist[i].evaluated.feedback # NoneRec
        /\ st[i].retry_count = 2
        /\ pc[i] = "route_request"

\* C5: over every step, the events and the working_notes a run held before are
\* a prefix of what it holds after; a RETRY clears neither.
C5_AppendOnly ==
    [][\A i \in DOMAIN calls :
         /\ IsPrefix(st[i].events, st'[i].events)
         /\ IsPrefix(st[i].working_notes, st'[i].working_notes)]_vars

\* after a RETRY the lists still hold the first pass
C5_Witness ==
    \E i \in DOMAIN calls :
        /\ AfterNode(i, "review_agent")
        /\ st[i].review_action = RETRY
        /\ Len(st[i].events) >= 11
        /\ Len(st[i].working_notes) >= 9
        /\ st[i].events[1].type = "router.decision"

SameNotes(xs, ys) ==
    /\ Len(xs) = Len(ys)
    /\ \A k \in DOMAIN xs : xs[k].template = ys[k].template /\ xs[k].args = ys[k].args

\* the notes route_request would append for the feedback of the pass before
ExpectedPriorNotes(i) ==
    PriorAttemptNotes([retry_count |-> st[i].retry_count,
                       review_feedback |-> hist[i].last_feedback])

\* C6: after route_request ran on a retry pass whose preceding pass produced
\* Sentinel feedback with review notes, working_notes ends with the prior
\* attempt's context (stage, successful steps, issue categories,
\* recommendations, "Avoid plugin" when a plugin failed) followed by the
\* routing rationale.
C6_RetryPassReadsReviewNotes ==
    \A i \in DOMAIN calls :
        (/\ AfterNode(i, "route_request")
         /\ st[i].retry_count > 0
         /\ hist[i].last_feedback # NoneRec
         /\ hist[i].last_feedback.review_notes # NoneRec) =>
            LET notes == st[i].working_notes
                expected == ExpectedPriorNotes(i)
            IN  /\ Len(notes) > Len(expected)
                /\ SameNotes(SubSeq(notes, Len(notes) - Len(expected), Len(notes) - 1),
                             expected)

\* a retry pass after a failed dispatch whose route_request added the rationale
\* only
C6_Witness ==
    \E i \in DOMAIN calls :
        /\ AfterNode(i, "route_request")
        /\ st[i].retry_count = 1
        /\ hist[i].last_feedback # NoneRec
        /\ hist[i].last_feedback.review_notes # NoneRec
        /\ "failed_plugin" \in DOMAIN hist[i].last_feedback.review_notes.routing_context
        /\ \A k \in DOMAIN st[i].working_notes :
             st[i].working_notes[k].template # "Avoid plugin: {failed_plugin}"

\* C7: every execution of a graph node makes events exactly one longer.
C7_EveryNodeAppendsOneEvent ==
    \A i \in DOMAIN calls : hist[i].executed > 0 => hist[i].last_grew = 1

\* interpret_request ran for a structured request and the audit trail is empty
C7_Witness ==
    \E i \in DOMAIN calls :
        /\ AfterNode(i, "interpret_request")
        /\ calls[i].payload.kind = "structured"
        /\ raised[i] = "None"
        /\ st[i].events = <<>>

RECURSIVE SumAppended(_)
SumAppended(is) ==
    IF is = {} THEN 0
    ELSE LET i == CHOOSE j \in is : TRUE
         IN  hist[i].appended + SumAppended(is \ {i})

OnThread(t) == {i \in DOMAIN calls : ThreadOf(i) = t}

\* C8: at most one node execution is in flight per thread_id, and the thread's
\* checkpoint holds every event the node executions on the thread appended.
C8_OneNodeInFlightPerThread ==
    /\ \A i, j \in DOMAIN calls :
         (i # j /\ ThreadOf(i) = ThreadOf(j)) => ~(inflight[i] /\ inflight[j])
    /\ \A t \in Threads :
         ckpt[t] # NoneRec => Len(ckpt[t].events) = SumAppended(OnThread(t))

\* both calls ran to the end and the checkpoint holds fewer events than the
\* two runs appended
C8_Witness ==
    /\ \A i \in DOMAIN calls : pc[i] = "done"
    /\ Len(ckpt["t1"].events) < SumAppended(OnThread("t1"))

\* the evaluate call recorded for invocation i: its feedback was unapproved
Unapproved(i) ==
    /\ hist[i].evaluated # NoneRec
    /\ hist[i].evaluated.feedback # NoneRec
    /\ ~hist[i].evaluated.feedback.approved

HasCriticalNonActionable(feedback) ==
    \E k \in DOMAIN feedback.detailed_issues :
        /\ ~feedback.detailed_issues[k].actionable
        /\ feedback.detailed_issues[k].severity = "critical"

C10_CriticalNonActionableCompletes ==
    \A i \in DOMAIN calls :
        (Unapproved(i) /\ HasCriticalNonActionable(hist[i].evaluated.feedback)) =>
            /\ hist[i].evaluated.action = COMPLETE
            /\ st[i].retry_count = hist[i].evaluated.retry_count
            /\ pc[i] = "update_memory"

\* a critical non-actionable issue escalated with the whole budget left
C10_Witness ==
    \E i \in DOMAIN calls :
        /\ Unapproved(i)
        /\ HasCriticalNonActionable(hist[i].evaluated.feedback)
        /\ hist[i].evaluated.retry_count = 0
        /\ max_retries = MaxRetriesCfg
        /\ hist[i].evaluated.action = COMPLETE

PolicyApprovalIssue ==
    ReviewIssue("policy", "Policy requires human approval", "high", FALSE)

\* C11: when the only issue of unapproved Sentinel feedback is the
\* non-actionable policy human-approval issue, the Review Agent returns COMPLETE
\* at retry_count = 0.
C11_PolicyApprovalEscalatesAtOnce ==
    \A i \in DOMAIN calls :
        (/\ Unapproved(i)
         /\ hist[i].evaluated.feedback.detailed_issues = <<PolicyApprovalIssue>>
         /\ hist[i].evaluated.retry_count = 0) =>
            hist[i].evaluated.action = COMPLETE

\* a pass gated by a notify_if directive is sent round again
C11_Witness ==
    \E i \in DOMAIN calls :
        /\ AfterNode(i, "review_agent")
        /\ hist[i].reviewed.policy_decision = 
             PolicyDecision(TRUE, TRUE, Fmt("Requires human review before dispatch", <<>>))
        /\ hist[i].evaluated.feedback.detailed_issues = <<PolicyApprovalIssue>>
        /\ hist[i].evaluated.retry_count = 0
        /\ hist[i].evaluated.action = RETRY
        /\ pc[i] = "route_request"

\* C12: evaluate returns RETRY only if retry_count < max_retries and the
\* feedback is missing or unapproved; for approved feedback and for an
\* exhausted budget it returns COMPLETE.
C12_RetryOnlyWithinBudgetWhenUnapproved ==
    \A i \in DOMAIN calls :
        hist[i].evaluated # NoneRec =>
            LET e == hist[i].evaluated
                retryable == e.feedback = NoneRec \/ ~e.feedback.approved
            IN  /\ e.action \in ReviewAction
                /\ e.action = RETRY => (e.retry_count < max_retries /\ retryable)
                /\ (~retryable \/ e.retry_count >= max_retries) => e.action = COMPLETE

\* approved feedback evaluated with the whole budget left
C12_Witness ==
    \E i \in DOMAIN calls :
        /\ hist[i].evaluated # NoneRec
        /\ hist[i].evaluated.feedback # NoneRec
        /\ hist[i].evaluated.feedback.approved
        /\ hist[i].evaluated.feedback.detailed_issues # <<>>
        /\ hist[i].evaluated.retry_count = 0
        /\ max_retries = MaxRetriesCfg
        /\ hist[i].evaluated.action = COMPLETE

\* C13: a run whose status is COMPLETED holds approved review feedback; an
\* escalated run (COMPLETE decided for unapproved feedback) keeps a
\* non-terminal status with requires_human_approval = true.
C13_CompletedMeansApproved ==
    \A i \in DOMAIN calls :
        /\ st[i].status = "completed" =>
             st[i].review_feedback # NoneRec /\ st[i].review_feedback.approved
        /\ (pc[i] = "done" /\ Unapproved(i)) =>
             st[i].status # "completed" /\ st[i].requires_human_approval

\* a run escalated after its budget was used up, ended by finalize
C13_Witness ==
    \E i \in DOMAIN calls :
        /\ pc[i] = "done"
        /\ Unapproved(i)
        /\ hist[i].evaluated.action = COMPLETE
        /\ hist[i].evaluated.retry_count = max_retries
        /\ max_retries >= 1
        /\ st[i].status = "completed"
        /\ st[i].requires_human_approval

\* the Sentinel was called for invocation i and returned
Reviewed(i) == hist[i].reviewed # NoneRec

IssuesOf(feedback, category) ==
    SelectSeq(feedback.detailed_issues, LAMBDA issue : issue.category = category)

RecoverableOnly(feedback) ==
    /\ feedback.detailed_issues # <<>>
    /\ \A k \in DOMAIN feedback.detailed_issues :
         feedback.detailed_issues[k].category \in {"planning", "context", "validation"}

\* C14: a pass whose Sentinel issues are all recoverable run-quality issues
\* (empty plan, zero snippets, insufficient validation) gets RETRY while
\* retry_count < max_retries and is escalated only afterwards.
C14_RecoverableIssuesRetried ==
    \A i \in DOMAIN calls :
        (/\ hist[i].evaluated # NoneRec
         /\ hist[i].evaluated.feedback # NoneRec
         /\ RecoverableOnly(hist[i].evaluated.feedback)
         /\ hist[i].evaluated.retry_count < max_retries) =>
            hist[i].evaluated.action = RETRY

\* an empty plan, approved by the Sentinel and completed with budget left
C14_Witness ==
    \E i \in DOMAIN calls :
        /\ hist[i].evaluated # NoneRec
        /\ hist[i].reviewed.planned_actions = <<>>
        /\ Len(hist[i].evaluated.feedback.detailed_issues) = 1
        /\ RecoverableOnly(hist[i].evaluated.feedback)
        /\ hist[i].evaluated.feedback.approved
        /\ hist[i].evaluated.retry_count = 0
        /\ max_retries = MaxRetriesCfg
        /\ hist[i].evaluated.action = COMPLETE

\* C15: for a state whose plugin_result.failed is non-empty the Sentinel's
\* feedback is unapproved, requires a human, holds exactly one PLUGIN issue
\* (high, actionable) and names the failing plugin in routing_context.
C15_PluginFailureFeedback ==
    \A i \in DOMAIN calls :
        (/\ Reviewed(i)
         /\ hist[i].reviewed.plugin_result # NoneRec
         /\ hist[i].reviewed.plugin_result.failed # <<>>) =>
            LET feedback == hist[i].last_feedback
                found == IssuesOf(feedback, "plugin")
            IN  /\ ~feedback.approved
                /\ feedback.requires_human
                /\ Len(found) = 1
                /\ found[1].severity = "high"
                /\ found[1].actionable
                /\ feedback.review_notes # NoneRec
                /\ "failed_plugin" \in DOMAIN feedback.review_notes.routing_context
                /\ feedback.review_notes.routing_context.failed_plugin
                     = hist[i].reviewed.plugin_result.plugin_name

\* a failed delivery through the alias, on an otherwise clean pass
C15_Witness ==
    \E i \in DOMAIN calls :
        /\ Reviewed(i)
        /\ hist[i].reviewed.plugin_result = PluginDispatchResult("whatsapp", 0, <<"alice">>)
        /\ ~hist[i].reviewed.requires_human_approval
        /\ hist[i].last_feedback.detailed_issues
             = <<ReviewIssue("plugin", "Plugin delivery failed", "high", TRUE)>>
        /\ ~hist[i].last_feedback.approved

\* C16: for a state whose policy_decision has allowed = false the Sentinel
\* emits a POLICY issue of severity critical that is not actionable, whatever
\* the decision's requires_human flag is.
C16_DisallowedIsCritical ==
    \A i \in DOMAIN calls :
        (/\ Reviewed(i)
         /\ hist[i].reviewed.policy_decision # NoneRec
         /\ ~hist[i].reviewed.policy_decision.allowed) =>
            \E k \in DOMAIN hist[i].last_feedback.detailed_issues :
                LET issue == hist[i].last_feedback.detailed_issues[k]
                IN  /\ issue.category = "policy"
                    /\ issue.severity = "critical"
                    /\ ~issue.actionable

\* a blocked decision as the Policy Engine builds it, reported as high only
C16_Witness ==
    \E i \in DOMAIN calls :
        /\ Reviewed(i)
        /\ hist[i].reviewed.policy_decision # NoneRec
        /\ ~hist[i].reviewed.policy_decision.allowed
        /\ hist[i].reviewed.policy_decision.requires_human
        /\ IssuesOf(hist[i].last_feedback, "policy") = <<PolicyApprovalIssue>>

\* C17: every feedback the Sentinel returns has approved = ~requires_human,
\* and requires_human = true when the state's requires_human_approval was
\* already true.
C17_ApprovedIsNotRequiresHuman ==
    \A i \in DOMAIN calls :
        Reviewed(i) =>
            /\ hist[i].last_feedback.approved = ~hist[i].last_feedback.requires_human
            /\ hist[i].reviewed.requires_human_approval =>
                 hist[i].last_feedback.requires_human
            /\ st[i].review_feedback = NoneRec
                 \/ ~(st[i].review_feedback.requires_human /\ st[i].review_feedback.approved)

\* a clean pass that an earlier node had flagged for a human
C17_Witness ==
    \E i \in DOMAIN calls :
        /\ Reviewed(i)
        /\ hist[i].reviewed.requires_human_approval
        /\ hist[i].last_feedback.detailed_issues = <<>>
        /\ hist[i].last_feedback.requires_human
        /\ ~hist[i].last_feedback.approved

\* C18: for a state with no planned actions and no plugin result, policy
\* decision, retrieved context, context validation or error the Sentinel
\* returns exactly one issue, PLANNING / medium / actionable, and
\* routing_context.empty_plan = true.
C18_EmptyPlanIssue ==
    \A i \in DOMAIN calls :
        (/\ Reviewed(i)
         /\ hist[i].reviewed.planned_actions = <<>>
         /\ hist[i].reviewed.plugin_result = NoneRec
         /\ hist[i].reviewed.policy_decision = NoneRec
         /\ hist[i].reviewed.retrieved_context = NoneRec
         /\ hist[i].reviewed.context_validation = NoneRec
         /\ hist[i].reviewed.error = "None") =>
            LET feedback == hist[i].last_feedback
            IN  /\ Len(feedback.detailed_issues) = 1
                /\ feedback.detailed_issues[1].category = "planning"
                /\ feedback.detailed_issues[1].severity = "medium"
                /\ feedback.detailed_issues[1].actionable
                /\ feedback.review_notes # NoneRec
                /\ "empty_plan" \in DOMAIN feedback.review_notes.routing_context
                /\ feedback.review_notes.routing_context.empty_plan = TRUE

\* the otherwise clean state with no plan and no workflow
C18_Witness ==
    \E i \in DOMAIN calls :
        /\ Reviewed(i)
        /\ hist[i].reviewed.planned_actions = <<>>
        /\ hist[i].reviewed.plugin_result = NoneRec
        /\ hist[i].reviewed.policy_decision = NoneRec
        /\ hist[i].reviewed.retrieved_context = NoneRec
        /\ hist[i].reviewed.context_validation = NoneRec
        /\ hist[i].reviewed.error = "None"
        /\ hist[i].reviewed.selected_workflow = "None"
        /\ DOMAIN hist[i].last_feedback.review_notes.routing_context = {"empty_plan"}

\* some directive of the given kind, stored for the request's tenant, has its
\* pattern in the lowercased request text
Matches(store, request, kind) ==
    \E k \in DOMAIN store[request.tenant_id] :
        /\ store[request.tenant_id][k].directive = kind
        /\ store[request.tenant_id][k].pattern
             \in {Lower(phrase) : phrase \in request.text}

\* C19: evaluate returns allowed = false, together with requires_human =
\* true, exactly when a never_do directive of the request's tenant matches the
\* request text; otherwise allowed = true, with requires_human = true exactly
\* when a notify_if directive matches or the intent starts with "escalate".
C19_BlockedIffNeverDoMatches ==
    \A i \in DOMAIN calls :
        hist[i].decided # NoneRec =>
            LET d == hist[i].decided
                blocked == Matches(d.store, d.request, "never_do")
                gated == \/ Matches(d.store, d.request, "notify_if")
                         \/ d.request.intent = "escalate_issue"
            IN  /\ d.decision.allowed = ~blocked
                /\ ~d.decision.allowed => d.decision.requires_human
                /\ d.decision.allowed => d.decision.requires_human = gated

\* a request blocked through a pattern that its text holds in capitals, while
\* the other tenant stores nothing
C19_Witness ==
    \E i \in DOMAIN calls :
        /\ hist[i].decided # NoneRec
        /\ hist[i].decided.request.text = {"Share Passwords"}
        /\ hist[i].decided.request.tenant_id = "tenant-123"
        /\ hist[i].decided.store["default"] = <<>>
        /\ ~hist[i].decided.decision.allowed
        /\ hist[i].decided.decision.requires_human

\* C20: a second capture call with the same request returns no added
\* directive and leaves the stored directives as the first call left them.
C20_CaptureIdempotent ==
    \A i \in DOMAIN calls :
        (hist[i].captured # NoneRec /\ hist[i].captured.nth >= 2) =>
            /\ hist[i].captured.added = <<>>
            /\ hist[i].captured.after = hist[i].captured.first_after
            /\ policy_store = hist[i].captured.first_after

\* the second call for a request whose first call stored a directive
C20_Witness ==
    \E i \in DOMAIN calls :
        /\ hist[i].captured # NoneRec
        /\ hist[i].captured.nth = 2
        /\ hist[i].captured.request.policy_feedback # <<>>
        /\ hist[i].captured.first_after # [t \in Tenants |-> <<>>]
        /\ Len(hist[i].captured.first_after[hist[i].captured.request.tenant_id]) = 1
        /\ hist[i].captured.added = <<>>

NoDuplicates(xs) == \A j, k \in DOMAIN xs : j # k => xs[j] # xs[k]

Range(xs) == {xs[k] : k \in DOMAIN xs}

\* C21: no tenant's list ever holds a directive twice, and every
\* add_directives or capture call appends to the tenant's list exactly the
\* directives of its batch that were not stored before, each once, and returns
\* them; the other tenants' lists stay as they were.
C21_DirectivesDeduplicated ==
    /\ [](\A tenant \in Tenants : NoDuplicates(policy_store[tenant]))
    /\ [][\A i \in DOMAIN calls :
            (hist'[i].stored # hist[i].stored \/ policy_store' # policy_store) =>
                LET call == hist'[i].stored
                    tenant_key == TenantKey(call.tenant_id)
                IN  /\ policy_store'[tenant_key] = policy_store[tenant_key] \o call.added
                    /\ NoDuplicates(call.added)
                    /\ Range(call.added)
                         = Range(call.batch) \ Range(policy_store[tenant_key])
                    /\ \A other \in Tenants \ {tenant_key} :
                         policy_store'[other] = policy_store[other]]_vars

\* a batch naming one directive twice, stored once beside an older directive
C21_Witness ==
    \E i \in DOMAIN calls :
        /\ hist[i].stored # NoneRec
        /\ hist[i].stored.batch = <<NeverDo, NeverDo>>
        /\ hist[i].stored.added = <<NeverDo>>
        /\ policy_store[TenantKey(hist[i].stored.tenant_id)] = <<NotifyIf, NeverDo>>

\* C22: once capture has stored a "never do X" phrase of a request, every
\* later evaluate of a request of the same tenant whose text contains X returns
\* allowed = false.
C22_CapturedNeverDoBlocks ==
    [][\A i, j \in DOMAIN calls :
         (/\ hist'[i].decided # hist[i].decided
          /\ hist[j].captured # NoneRec
          /\ calls[j].payload.request.tenant_id = calls[i].payload.request.tenant_id) =>
             \A k \in DOMAIN calls[j].payload.request.policy_feedback :
                 LET d == calls[j].payload.request.policy_feedback[k]
                 IN  (d.directive = "never_do" /\ InText(calls[i].payload.request, d.pattern))
                        => ~hist'[i].decided.decision.allowed]_vars

\* a request without feedback that names the phrase in capitals, blocked by
\* the directive another request of its tenant had captured
C22_Witness ==
    /\ DOMAIN calls = {1, 2}
    /\ hist[1].captured # NoneRec
    /\ hist[2].captured = NoneRec
    /\ hist[2].decided # NoneRec
    /\ calls[2].payload.request.policy_feedback = <<>>
    /\ calls[2].payload.request.text = {"Share Passwords"}
    /\ calls[2].payload.request.tenant_id = "tenant-123"
    /\ hist[2].decided.store["tenant-123"] = <<NeverDo>>
    /\ ~hist[2].decided.decision.allowed

\* the store with the lists of every tenant but `tenant_id` replaced
WithOtherTenants(store, tenant_id, lists) ==
    [t \in Tenants |-> IF t = TenantKey(tenant_id) THEN store[t] ELSE lists]

\* C23: the directive list and the decision evaluate returns for a request
\* are the same whatever the other tenants store, and a capture call changes
\* no list but that of the request's tenant.
C23_TenantIsolation ==
    \A i \in DOMAIN calls :
        /\ hist[i].decided # NoneRec =>
              LET d == hist[i].decided
              IN  \A lists \in StoredLists :
                      LET other == WithOtherTenants(d.store, d.request.tenant_id, lists)
                      IN  /\ get_directives(other, d.request.tenant_id)
                               = get_directives(d.store, d.request.tenant_id)
                          /\ PolicyEvaluate(other, d.request) = d.decision
        /\ hist[i].captured # NoneRec =>
              LET c == hist[i].captured
              IN  \A t \in Tenants \ {TenantKey(c.request.tenant_id)} :
                      get_directives(c.after, t) = get_directives(c.before, t)

\* a request of one tenant allowed although the other tenant stores a never_do
\* directive whose pattern its text contains
C23_Witness ==
    \E i \in DOMAIN calls :
        /\ hist[i].decided # NoneRec
        /\ hist[i].decided.request.tenant_id = "tenant-123"
        /\ hist[i].decided.request.text = {"Share Passwords"}
        /\ hist[i].decided.request.intent = "send_update"
        /\ hist[i].decided.store["default"] = <<NeverDo>>
        /\ hist[i].decided.store["tenant-123"] = <<>>
        /\ hist[i].decided.decision.allowed
        /\ ~hist[i].decided.decision.requires_human

\* C24: for a request without an audience and without a non-empty
\* metadata.workflow, decide_workflow returns "generic-task", never "broadcast",
\* and no LLM answer changes the workflow decide_workflow returns.
C24_NoAudienceNeverBroadcast ==
    \A i \in DOMAIN calls :
        hist[i].routed # NoneRec =>
            LET input == calls[i].payload
            IN  /\ (input.audience = NoneRec /\ input.explicit \in {"None", "", "  "}) =>
                      hist[i].routed.workflow = "generic-task"
                /\ \A llm_reason \in LlmAnswers :
                      decide_workflow(input.explicit, input.audience, llm_reason).workflow
                        = hist[i].routed.workflow

\* no audience, a blank metadata.workflow and an LLM that answers "broadcast"
C24_Witness ==
    \E i \in DOMAIN calls :
        /\ hist[i].routed # NoneRec
        /\ calls[i].payload.audience = NoneRec
        /\ calls[i].payload.explicit = "  "
        /\ calls[i].payload.llm_reason = "broadcast"
        /\ hist[i].routed.workflow = "generic-task"
        /\ hist[i].routed.rationale = "broadcast"

\* the node the graph's edges name after `node`, given the state the node left
EdgeFrom(node, s) ==
    CASE node = "interpret_request" -> "route_request"
      [] node = "route_request" -> "policy_check"
      [] node = "policy_check" -> "fetch_context"
      [] node = "fetch_context" -> "plan_actions"
      [] node = "plan_actions" -> "agent_reflection"
      [] node = "agent_reflection" -> "select_plugin"
      [] node = "select_plugin" -> "render_payload"
      [] node = "render_payload" ->
            IF s.selected_plugin # "None" THEN "execute_plugin" ELSE "review_outcome"
      [] node = "execute_plugin" -> "review_outcome"
      [] node = "review_outcome" -> "review_agent"
      [] node = "review_agent" ->
            IF s.review_action = COMPLETE THEN "update_memory" ELSE "route_request"
      [] node = "update_memory" -> "finalize"
      [] node = "finalize" -> "done"

\* C25: every node execution that returns is followed by the next node of the
\* fixed order (execute_plugin after render_payload iff selected_plugin is
\* non-empty; after review_agent, update_memory on COMPLETE and route_request
\* on RETRY); update_memory and finalize follow a COMPLETE decision only, and
\* nothing executes after finalize.
C25_FixedNodeOrder ==
    [][\A i \in DOMAIN calls :
         /\ hist'[i].executed = hist[i].executed + 1 =>
               /\ pc[i] \in Nodes
               /\ pc'[i] \in {"aborted", EdgeFrom(pc[i], st'[i])}
         /\ pc'[i] = "update_memory" /\ pc[i] # "update_memory" =>
               pc[i] = "review_agent" /\ st'[i].review_action = COMPLETE
         /\ pc'[i] = "finalize" /\ pc[i] # "finalize" => pc[i] = "update_memory"
         /\ pc[i] = "done" => pc'[i] = "done" /\ hist'[i].executed = hist[i].executed]_vars

\* a run of two passes that ended at finalize: the first node, ten nodes per
\* pass, update_memory and finalize
C25_Witness ==
    \E i \in DOMAIN calls :
        /\ pc[i] = "done"
        /\ st[i].retry_count = 1
        /\ hist[i].dispatches = 2
        /\ hist[i].executed = 23
        /\ hist[i].last_node = "finalize"

\* the decision policy_check would reach for the request if no other run had
\* executed
DecisionAlone(request) ==
    PolicyEvaluate(capture([t \in Tenants |-> <<>>], request).store, request)

\* invocation i executes policy_check in this step
ChecksPolicy(i) == pc[i] = "policy_check" /\ hist'[i].executed = hist[i].executed + 1

\* C26 as stated: the policy decision of a run is the one it would reach if
\* no other run had executed, and no run changes the state of another.
C26_RunsNeverInteract ==
    [][\A i \in DOMAIN calls :
         ChecksPolicy(i) =>
             IF DecisionAlone(st[i].request).allowed
               THEN /\ pc'[i] = "fetch_context"
                    /\ st'[i].policy_decision = DecisionAlone(st[i].request)
               ELSE pc'[i] = "aborted"]_vars

\* C26 as amended: no step of a run changes the state or the checkpoint of a
\* run with another thread_id, and the decision policy_check reaches is the
\* one evaluate gives for the request and the directives of its own tenant,
\* whatever the other tenants store.
C26_RunsInteractThroughTenantDirectives ==
    [][\A i \in DOMAIN calls :
         /\ ChecksPolicy(i) =>
               \A lists \in StoredLists :
                   LET other == WithOtherTenants(policy_store, st[i].request.tenant_id, lists)
                       decision == PolicyEvaluate(capture(other, st[i].request).store,
                                                  st[i].request)
                   IN  IF decision.allowed
                         THEN /\ pc'[i] = "fetch_context"
                              /\ st'[i].policy_decision = decision
                         ELSE pc'[i] = "aborted"
         /\ (st'[i] # st[i] \/ pc'[i] # pc[i] \/ ckpt'[ThreadOf(i)] # ckpt[ThreadOf(i)]) =>
               \A j \in DOMAIN calls \ {i} :
                   ThreadOf(j) # ThreadOf(i) =>
                       /\ st'[j] = st[j]
                       /\ pc'[j] = pc[j]
                       /\ raised'[j] = raised[j]
                       /\ ckpt'[ThreadOf(j)] = ckpt[ThreadOf(j)]]_vars

\* a run of one tenant completed with an allowed decision although its text
\* holds the phrase a run of the other tenant had captured as never_do
C26_Witness ==
    /\ DOMAIN calls = {1, 2}
    /\ calls[1].payload.request.tenant_id = "default"
    /\ calls[1].payload.request.policy_feedback = <<NeverDo>>
    /\ hist[1].denied
    /\ policy_store["default"] = <<NeverDo>>
    /\ calls[2].payload.request.tenant_id = "tenant-123"
    /\ calls[2].payload.request.text = {"Share Passwords"}
    /\ pc[2] = "done"
    /\ st[2].policy_decision.allowed

\* C27 as stated: once requires_human_approval is true it is true in every
\* later state of the run.
C27_RequiresHumanNeverUnset ==
    [][\A i \in DOMAIN calls :
         st[i].requires_human_approval => st'[i].requires_human_approval]_vars

\* C27 as amended: requires_human_approval goes from true to false only in a
\* review_agent execution that decides RETRY; every other node keeps it true.
C27_RequiresHumanUnsetByRetryOnly ==
    [][\A i \in DOMAIN calls :
         (st[i].requires_human_approval /\ ~st'[i].requires_human_approval) =>
             /\ pc[i] = "review_agent"
             /\ st'[i].review_action = RETRY
             /\ st'[i].retry_count = st[i].retry_count + 1
             /\ pc'[i] = "route_request"]_vars

\* a RETRY has cleared the flag the Sentinel had set, and a later pass set it
\* again and kept it to the end of the run
C27_Witness ==
    \E i \in DOMAIN calls :
        /\ pc[i] = "done"
        /\ st[i].retry_count >= 1
        /\ st[i].requires_human_approval
        /\ \E k \in DOMAIN st[i].events :
             /\ st[i].events[k].type = "agent.review"
             /\ st[i].events[k].data.requires_human
             /\ k < Len(st[i].events) - 12

\* C28: an execute_plugin execution never aborts the run: it is followed by
\* review_outcome, and when the dispatch gave no result the state's error field
\* holds the error for the Sentinel to report.
C28_DispatchErrorIsReviewed ==
    \A i \in DOMAIN calls :
        AfterNode(i, "execute_plugin") =>
            /\ pc[i] = "review_outcome"
            /\ raised[i] = "None"
            /\ st[i].plugin_result = NoneRec => st[i].error # "None"

\* the dispatch raised and the exception ended the run with no error recorded
C28_Witness ==
    \E i \in DOMAIN calls :
        /\ AfterNode(i, "execute_plugin")
        /\ hist[i].dispatches = 1
        /\ raised[i] = "PluginError"
        /\ pc[i] = "aborted"
        /\ st[i].error = "None"
        /\ hist[i].reviewed = NoneRec

\* the plugin.dispatched events of a run, oldest first
Dispatched(i) == SelectSeq(st[i].events, LAMBDA e : e.type = "plugin.dispatched")

\* the first dispatch reported failed recipients, the second none
FailedThenDelivered(i) ==
    /\ Len(Dispatched(i)) >= 2
    /\ Dispatched(i)[1].data.dispatched_count = 0
    /\ Dispatched(i)[2].data.dispatched_count = 1

\* C29: a run with max_retries >= 1 whose first dispatch reported failed
\* recipients and whose second reported none ends completed with retry_count =
\* 1, a plugin_result without failures, approved review_feedback, a
\* review.agent event and the retry decision's note in working_notes.
C29_RetryThenApproved ==
    \A i \in DOMAIN calls :
        (pc[i] = "done" /\ max_retries >= 1 /\ FailedThenDelivered(i)) =>
            /\ st[i].status = "completed"
            /\ st[i].retry_count = 1
            /\ st[i].plugin_result.failed = <<>>
            /\ st[i].review_feedback.approved
            /\ \E k \in DOMAIN st[i].events : st[i].events[k].type = "review.agent"
            /\ \E k \in DOMAIN st[i].working_notes :
                 st[i].working_notes[k].template =
                   "Review agent detected issues ({issues}); retrying workflow{context_msg}"

\* a request gated by its own notify_if phrase: the second pass delivered and
\* the run ended unapproved
C29_Witness ==
    \E i \in DOMAIN calls :
        /\ pc[i] = "done"
        /\ max_retries = 1
        /\ FailedThenDelivered(i)
        /\ st[i].request.policy_feedback = <<NotifyIf>>
        /\ st[i].retry_count = 1
        /\ st[i].plugin_result.failed = <<>>
        /\ ~st[i].review_feedback.approved
        /\ st[i].review_feedback.detailed_issues = <<PolicyApprovalIssue>>

\* C30: after a node has raised, the state read by the run's thread_id has
\* status failed.
C30_RaisedNodeLeavesFailed ==
    \A i \in DOMAIN calls :
        pc[i] = "aborted" =>
            /\ get_state(ThreadOf(i)) # NoneRec
            /\ get_state(ThreadOf(i)).status = "failed"

\* the dispatch raised and the checkpoint still holds the status written by
\* agent_reflection
C30_Witness ==
    \E i \in DOMAIN calls :
        /\ pc[i] = "aborted"
        /\ raised[i] = "PluginError"
        /\ hist[i].last_node = "execute_plugin"
        /\ get_state(ThreadOf(i)).status = "reflecting"

\* the order in which the spec lists the statuses of a run
StatusOrder ==
    <<"queued", "routing", "policy_check", "fetching_context", "planning",
      "reflecting", "dispatching", "reviewing", "updating_memory", "completed">>

\* position of a status in StatusOrder; 0 for a status no node has written yet
StatusRank(status) ==
    IF \E k \in DOMAIN StatusOrder : StatusOrder[k] = status
      THEN CHOOSE k \in DOMAIN StatusOrder : StatusOrder[k] = status
      ELSE 0

C35_RetryEdgeOnlyOnRetry ==
    \A i \in DOMAIN calls :
        hist[i].routed # NoneRec =>
            /\ (ReviewEdges[hist[i].routed.route] = "route_request")
                   <=> (hist[i].routed.action = "retry")
            /\ hist[i].routed.action # "retry" =>
                   /\ ReviewEdges[hist[i].routed.route] = "update_memory"
                   /\ pc[i] \in {"update_memory", "finalize", "done"}
                   /\ hist[i].routes = 0

\* an unrecognised review_action was routed and the run went on to finalize
C35_Witness ==
    \E i \in DOMAIN calls :
        /\ hist[i].routed # NoneRec
        /\ hist[i].routed.action = "RETRY"
        /\ hist[i].routed.route = COMPLETE
        /\ pc[i] = "done"

\* the never_do directives the step has added to the tenant's stored list
NewNeverDo(tenant) ==
    {d \in Range(policy_store'[tenant]) \ Range(policy_store[tenant]) :
        d.directive = "never_do"}

\* C36: a policy_check whose capture stores a never_do directive of the
\* request denies that same request (PermissionError), and the directive stays
\* stored for the tenant although the run aborts.
C36_CapturedNeverDoDeniesItsRequest ==
    /\ [][\A i \in DOMAIN calls :
            (/\ Running(i, "policy_check")
             /\ ~inflight'[i]
             /\ NewNeverDo(TenantKey(st[i].request.tenant_id)) # {})
                => /\ pc'[i] = "aborted"
                   /\ raised'[i] = "PermissionError"]_vars
    /\ [][\A tenant \in Tenants :
            IsPrefix(policy_store[tenant], policy_store'[tenant])]_vars

\* a policy_check has stored the never_do directive of its request and the
\* run went on to fetch_context
C36_Witness ==
    \E i \in DOMAIN calls :
        /\ AfterNode(i, "policy_check")
        /\ pc[i] = "fetch_context"
        /\ st[i].captured_policy_directives = <<NeverDo>>
        /\ st[i].policy_decision.allowed
        /\ Contains(policy_store["default"], NeverDo)

\* C37: a pass dispatches at most once, a run at most max_retries + 1 times,
\* and every dispatch, also the one of a retry pass, is handed the full
\* audience of the request.
C37_OneDispatchPerPassToEveryone ==
    \A i \in DOMAIN calls :
        /\ hist[i].dispatches <= hist[i].routes
        /\ hist[i].dispatches <= max_retries + 1
        /\ Len(hist[i].sent) = hist[i].dispatches
        /\ \A k \in DOMAIN hist[i].sent : hist[i].sent[k] = Recipients(st[i].request)

\* the first pass delivered to the recipient, the run was retried and the
\* second pass dispatched to the same recipient again
C37_Witness ==
    \E i \in DOMAIN calls :
        /\ hist[i].dispatches = 2
        /\ hist[i].routes = 2
        /\ Len(Dispatched(i)) = 2
        /\ Dispatched(i)[1].data.dispatched_count = 1
        /\ hist[i].sent = <<<<"+15550001111">>, <<"+15550001111">>>>

\* C38: in the final state of a run that reached finalize,
\* requires_human_approval is true exactly when the review_feedback of the last
\* pass requires a human, which is exactly when it is not approved.
C38_FinalFlagIsLastFeedback ==
    \A i \in DOMAIN calls :
        pc[i] = "done" =>
            /\ st[i].review_feedback # NoneRec
            /\ st[i].review_feedback = hist[i].last_feedback
            /\ st[i].requires_human_approval <=> st[i].review_feedback.requires_human
            /\ st[i].requires_human_approval <=> ~st[i].review_feedback.approved

\* the first pass failed to deliver and set the flag, the retry pass
\* delivered: the finished run carries no flag
C38_Witness ==
    \E i \in DOMAIN calls :
        /\ pc[i] = "done"
        /\ st[i].retry_count = 1
        /\ FailedThenDelivered(i)
        /\ ~st[i].requires_human_approval
        /\ st[i].review_feedback.approved

\* the events of a type, in order
EventsOf(i, type) == SelectSeq(st[i].events, LAMBDA e : e.type = type)

\* C39: a completed run that started from a structured request has
\* retry_count + 1 router.decision events, retry_count + 1 review.agent
\* events of which retry_count carry the action retry, and one
\* workflow.completed event, which is the last event.
C39_EventCountsOfCompletedRun ==
    \A i \in DOMAIN calls :
        (calls[i].payload.kind = "structured" /\ st[i].status = "completed") =>
            /\ Len(EventsOf(i, "router.decision")) = st[i].retry_count + 1
            /\ Len(EventsOf(i, "review.agent")) = st[i].retry_count + 1
            /\ Len(SelectSeq(EventsOf(i, "review.agent"),
                             LAMBDA e : e.data.action = RETRY)) = st[i].retry_count
            /\ Len(EventsOf(i, "workflow.completed")) = 1
            /\ st[i].events[Len(st[i].events)].type = "workflow.completed"

\* a completed run with one retry: two router decisions, two review.agent
\* events, the first of them a retry
C39_Witness ==
    \E i \in DOMAIN calls :
        /\ calls[i].payload.kind = "structured"
        /\ st[i].status = "completed"
        /\ st[i].retry_count = 1
        /\ Len(EventsOf(i, "router.decision")) = 2
        /\ EventsOf(i, "review.agent")[1].data.action = RETRY
        /\ EventsOf(i, "review.agent")[2].data.action = COMPLETE

\* every call has been answered alike by the two backends, and whatever is
\* called next will be
SameAnswers ==
    /\ backends.answers # NoneRec => backends.answers.memory = backends.answers.mongo
    /\ \A tenant_id \in Tenants \cup {""} :
         get_directives(backends.memory, tenant_id)
             = MongoGetDirectives(backends.mongo, tenant_id).result

\* C33 as stated: a MongoPolicyStore constructed without a collection answers
\* every get_directives and add_directives call as an InMemoryPolicyStore does.
C33_WithoutCollectionIsInMemory ==
    (backends # NoneRec /\ backends.without_collection) => SameAnswers

\* C33, amended: a MongoPolicyStore whose collection is None (constructed
\* without a collection where get_policy_collection() finds none) answers every
\* get_directives and add_directives call as an InMemoryPolicyStore does.
C33_NoCollectionIsInMemory ==
    (backends # NoneRec /\ backends.mongo.collection = NoneRec) => SameAnswers

\* both backends, no collection behind the Mongo one, have stored two
\* directives for the default tenant and returned the second as added
C33_Witness ==
    /\ backends # NoneRec
    /\ backends.mongo.collection = NoneRec
    /\ backends.answers # NoneRec
    /\ backends.answers.op = "add_directives"
    /\ backends.answers.mongo = <<NeverWire>>
    /\ get_directives(backends.memory, "") = <<NeverDo, NeverWire>>
    /\ MongoGetDirectives(backends.mongo, "default").result = <<NeverDo, NeverWire>>

\* the consumer tasks that have not finished
ActiveTasks == {t \in DOMAIN tasks : tasks[t].state = "active"}

\* C40: over any sequence of start() and stop() calls at most one consumer
\* task is active; start() creates a task only when the orchestrator holds no
\* task or a finished one; once stop() has returned no consumer task remains.
C40_AtMostOneConsumerTask ==
    /\ [](Cardinality(ActiveTasks) <= 1)
    /\ [](last_call = "stop returned" => consumer_task = 0 /\ ActiveTasks = {})
    /\ [][Len(tasks') > Len(tasks) =>
            IF consumer_task = 0 THEN TRUE
            ELSE tasks[consumer_task].state # "active"]_vars

\* stop() has returned after two tasks were created, the first cancelled in a run
C40_Witness ==
    /\ last_call = "stop returned"
    /\ Len(tasks) = 2
    /\ tasks[1].state = "cancelled"
    /\ tasks[1].at = "run"
    /\ tasks[2].state # "active"

\* the consumer task `t` stops awaiting its run in this step
LeavesRun(t) ==
    /\ tasks[t].at = "run"
    /\ tasks[t].state = "active"
    /\ tasks'[t] # tasks[t]

\* the status message the consumer owes for the run in `slot`: the final state
\* under its run_id, or the failure with the text of the error
StatusOwed(payload, slot) ==
    /\ payload.run_id = RunIdOf(slot)
    /\ IF pc[slot] = "done"
         THEN /\ payload.status = st[slot].status
              /\ payload.events = st[slot].events
              /\ payload.request = st[slot].request
              /\ payload.working_notes = st[slot].working_notes
         ELSE /\ pc[slot] = "aborted"
              /\ DOMAIN payload = {"run_id", "status", "error"}
              /\ payload.status = "failed"
              /\ payload.error = raised[slot]

\* C34: the consumer loop publishes exactly one status message for every
\* request it ran -- the serialized final state when the run returned, status
\* 'failed' with the error text when it raised -- and publishes nothing else;
\* after publishing it goes on listening; no message and no failing run ends
\* the loop (only stop() does).
C34_OneStatusPerConsumedRequest ==
    /\ [][/\ \A t \in DOMAIN tasks :
               LeavesRun(t) /\ tasks'[t].state = "active" =>
                   /\ tasks'[t].at = "listen"
                   /\ Len(status_channel') = Len(status_channel) + 1
                   /\ SubSeq(status_channel', 1, Len(status_channel)) = status_channel
                   /\ StatusOwed(status_channel'[Len(status_channel')], tasks[t].slot)
          /\ status_channel' # status_channel =>
               \E t \in DOMAIN tasks : LeavesRun(t)]_vars
    /\ [](\A t \in DOMAIN tasks : tasks[t].state # "failed")

\* a message that is no JSON object has ended the loop while a request that
\* would run is still waiting on the channel
C34_Witness ==
    /\ consumer_task # 0
    /\ tasks[1].state = "failed"
    /\ request_channel # <<>>
    /\ Head(request_channel).payload.request # NoneRec
    /\ status_channel = <<>>

\* a message for `slot` is waiting on the request channel
Pending(slot) ==
    \E k \in DOMAIN request_channel : request_channel[k].slot = slot

\* a consumer task is alive
Consuming == ActiveTasks # {}

\* C31: a run suspended on a collaborator call does not block other requests:
\* while a consumer is alive, a request waiting on the request channel is
\* eventually taken from it, even when the run consumed before it is still
\* awaiting its collaborator.
C31_SuspendedRunDoesNotBlock ==
    \A slot \in Invocations :
        (Consuming /\ Pending(slot)) ~> (~Pending(slot) \/ ~Consuming)

\* the runs the consumer has begun and not finished
RunsInProgress ==
    {i \in DOMAIN calls : pc[i] \in Nodes \cup {"idle"}}

\* the consumer's run of the first request awaits a collaborator while the
\* second request waits on the channel
C31_Witness ==
    /\ Consuming
    /\ Pending(2)
    /\ 1 \in DOMAIN calls
    /\ Head(request_channel).payload.request # NoneRec
    /\ inflight[1]
    /\ pc[1] = "execute_plugin"

\* the consumer never has two of its runs in progress
C31_OneRunAtATime == Cardinality(RunsInProgress) <= 1

====
